---- MODULE Spec2Model ----
(***************************************************************************)
(* Collaboration coordinator of the assistant agent                        *)
(* (src/agents/assistant/collaboration.py): ad-hoc collaboration sessions  *)
(* tracked by agent name, the pending-response index tracked by            *)
(* (task text, subtask index), the timeout sweep and response synthesis.   *)
(*                                                                         *)
(* Python dicts are modelled as sequences of [k, v] entries in insertion   *)
(* order.  Strings that the code builds by formatting (dictionary keys)    *)
(* are built here by the same concatenation.  User-visible texts are       *)
(* records [topic, kind, ...] whose kind names the literal of the code and *)
(* whose other fields are the values the code interpolates.                *)
(***************************************************************************)
EXTENDS Integers, Sequences, FiniteSets, TLC

VARIABLES
    now,           \* time.time()
    hasActive,     \* hasattr(self, 'active_collaborations')
    active,        \* self.active_collaborations, in insertion order
    pending,       \* self.pending_responses, in insertion order
    cur,           \* <<r>>: the agent response the most recent operation handled
    sent,          \* messages published by the most recent operation, in order
    calls,         \* get_completion calls made by the most recent operation
    op,            \* the most recent operation
    wire,          \* messages published to agent inboxes and not yet received
    coord,         \* the coordinator's agent tables (base.py, discovery.py)
    workers,       \* per worker: startup_time and _recent_messages
    message,       \* the text given to extract_mentions
    mentions,      \* <<result>> of extract_mentions, once applied
    request,       \* <<r>>: the task given to decompose_task and what it meets
    decomposed,    \* <<result>> of decompose_task, once applied
    sup,           \* the process supervisor: process table, agent records, processes
    threads        \* the supervisor's requests in progress, each at a line of its handler

vars == <<now, hasActive, active, pending, cur, sent, calls, op,
          wire, coord, workers, message, mentions,
          request, decomposed, sup, threads>>

(* what the collaboration handlers of the assistant leave alone *)
apart == <<request, decomposed, sup, threads>>
beside == <<wire, coord, workers, message, mentions, apart>>

-----------------------------------------------------------------------------
(* Bounds of the model *)

MaxTime == 31
MaxResponses == 3
MaxPending == 3
MaxTotal == 2

(* Program constants *)

COLLAB_TIMEOUT == 30
DEFAULT_TOTAL_SUBTASKS == 1
DEFAULT_KEY_INDEX == 0
DEFAULT_STORED_INDEX == -1

-----------------------------------------------------------------------------
(* Values the environment supplies *)

Registered == {"a", "b"}
ResultOf(agent) == "result of " \o agent
Queries == {"q"}
TickSteps == {COLLAB_TIMEOUT, COLLAB_TIMEOUT + 1}

None == <<>>
Some(v) == <<v>>
Get(o, default) == IF o = None THEN default ELSE o[1]

Range(s) == {s[i] : i \in 1..Len(s)}

(* Python dict operations on an insertion-ordered sequence of entries *)
DictHas(d, k) == \E i \in 1..Len(d) : d[i].k = k
DictGet(d, k) == d[CHOOSE i \in 1..Len(d) : d[i].k = k].v
DictPut(d, k, v) ==
    IF DictHas(d, k)
    THEN [i \in 1..Len(d) |-> IF d[i].k = k THEN [k |-> k, v |-> v] ELSE d[i]]
    ELSE Append(d, [k |-> k, v |-> v])
DictDelForgotten(d, k) == d
DictDel(d, k) == SelectSeq(d, LAMBDA e : e.k # k)
DictKeys(d) == {d[i].k : i \in 1..Len(d)}

-----------------------------------------------------------------------------
(* Keys *)

CollabKey(task, topic) == "collaboration_" \o task \o "_" \o topic
TaskKey(task, index) == task \o "_" \o ToString(index)
InboxTopic(agent) == "agent:" \o agent \o ":inbox"

-----------------------------------------------------------------------------
(* The agent instance `self` is a record                                    *)
(*   [hasActive, active, pending, sent, calls];                             *)
(* every operation below maps one such record to the next.                  *)

Publish(st, m) == [st EXCEPT !.sent = Append(@, m)]

(* self.get_completion: the call is recorded with its outcome; whether it
   returns content is oracle[who], drawn by the caller of the handler *)
GetCompletion(st, who, about, inputs, oracle) ==
    [st EXCEPT !.calls = Append(@, [who |-> who, about |-> about, inputs |-> inputs,
                                    content |-> oracle[who]])]

Contributions(responses) ==
    [i \in 1..Len(responses) |-> <<responses[i].from_agent, responses[i].result>>]

(* collaboration.py _synthesize_collaboration_responses *)
SynthesizeCollaborationResponses(st, collaboration, who, oracle) ==
    LET user_topic == collaboration.user_topic
        responses == collaboration.received_responses
    IN  IF Len(responses) <= 1
        THEN st
        ELSE LET st1 == Publish(st, [topic |-> user_topic, kind |-> "synthesizing",
                                     n |-> Len(responses)])
                 st2 == GetCompletion(st1, who, collaboration.task,
                                      Contributions(responses), oracle)
             IN  IF oracle[who]
                 THEN Publish(st2, [topic |-> user_topic, kind |-> "final_answer",
                                    of |-> Contributions(responses)])
                 ELSE st2

ReceivedAgents(collaboration) ==
    {collaboration.received_responses[i].from_agent :
        i \in 1..Len(collaboration.received_responses)}

AllExpectedReceivedByCount(collaboration) ==
    Len(collaboration.received_responses) >= Len(collaboration.expected_agents)

AllExpectedReceived(collaboration) ==
    Range(collaboration.expected_agents) \subseteq ReceivedAgents(collaboration)

RECURSIVE PublishResponses(_, _, _, _)
PublishResponses(st, user_topic, responses, i) ==
    IF i > Len(responses)
    THEN st
    ELSE PublishResponses(
             Publish(st, [topic |-> user_topic, kind |-> "agent_response",
                          agent |-> responses[i].from_agent,
                          text |-> responses[i].result]),
             user_topic, responses, i + 1)

(* collaboration.py _check_collaboration_completion *)
CheckCollaborationCompletion(st, from_agent, task_result, original_task, user_topic, oracle) ==
    IF ~st.hasActive
    THEN st
    ELSE
    LET collaboration_key == CollabKey(original_task.task, user_topic) IN
    IF ~DictHas(st.active, collaboration_key)
    THEN st
    ELSE
    LET before == DictGet(st.active, collaboration_key)
        collaboration ==
            [before EXCEPT !.received_responses =
                Append(@, [from_agent |-> from_agent, result |-> task_result,
                           task |-> original_task])]
        st1 == [st EXCEPT !.active = DictPut(@, collaboration_key, collaboration)]
    IN  IF AllExpectedReceived(collaboration)
        THEN LET st2 == PublishResponses(st1, user_topic,
                                         collaboration.received_responses, 1)
                 st3 == Publish(st2, [topic |-> user_topic, kind |-> "received_from",
                                      agents |-> ReceivedAgents(collaboration)])
                 st4 == Publish(st3, [topic |-> user_topic, kind |-> "collaboration_complete"])
                 st5 == [st4 EXCEPT !.active = DictDel(@, collaboration_key)]
             IN  IF Len(collaboration.received_responses) > 1
                 THEN SynthesizeCollaborationResponses(st5, collaboration, "complete", oracle)
                 ELSE st5
        ELSE Publish(st1, [topic |-> user_topic, kind |-> "still_waiting",
                           agents |-> Range(collaboration.expected_agents)
                                         \ ReceivedAgents(collaboration)])

TimedOutLate(collaboration, current_time) ==
    current_time - collaboration.start_time > collaboration.timeout + 1

TimedOutAtLimit(collaboration, current_time) ==
    current_time - collaboration.start_time >= collaboration.timeout

TimedOut(collaboration, current_time) ==
    current_time - collaboration.start_time > collaboration.timeout

(* collaboration.py _cleanup_timed_out_collaborations, the body of the loop
   for one timed-out session *)
TimeoutNotice(st, collaboration, who, oracle) ==
    LET user_topic == collaboration.user_topic
        received_count == Len(collaboration.received_responses)
    IN  IF received_count > 0
        THEN LET st1 == Publish(st, [topic |-> user_topic, kind |-> "timed_out_processing",
                                     n |-> received_count,
                                     plural |-> received_count > 1])
             IN  IF received_count > 1
                 THEN SynthesizeCollaborationResponses(st1, collaboration, who, oracle)
                 ELSE LET response == collaboration.received_responses[1]
                      IN  Publish(st1, [topic |-> user_topic, kind |-> "response_from",
                                        agent |-> response.from_agent,
                                        text |-> response.result])
        ELSE Publish(st, [topic |-> user_topic, kind |-> "timed_out_no_responses"])

RECURSIVE SweepFrom(_, _, _, _, _)
SweepFrom(st, d, i, current_time, oracle) ==
    IF i > Len(d)
    THEN st
    ELSE SweepFrom(
             IF TimedOut(d[i].v, current_time)
             THEN TimeoutNotice(st, d[i].v, d[i].k, oracle)
             ELSE st,
             d, i + 1, current_time, oracle)

(* collaboration.py _cleanup_timed_out_collaborations *)
CleanupTimedOutCollaborations(st, current_time, oracle) ==
    IF ~st.hasActive
    THEN st
    ELSE LET st1 == SweepFrom(st, st.active, 1, current_time, oracle)
         IN  [st1 EXCEPT !.active =
                 SelectSeq(@, LAMBDA e : ~TimedOut(e.v, current_time))]

-----------------------------------------------------------------------------
(* Index-based correlation *)

StoredQueryOrTask(e) == Get(e.v.task.original_query, e.v.task.task)

StoredQuery(e) == Get(e.v.task.original_query, "")

PurgeOnlyFirst(pending_responses, original_query) ==
    LET hit == {i \in 1..Len(pending_responses) :
                   StoredQuery(pending_responses[i]) = original_query}
    IN  IF hit = {} THEN pending_responses
        ELSE LET first == CHOOSE i \in hit : \A j \in hit : i <= j
             IN  [i \in 1..(Len(pending_responses) - 1) |->
                     IF i < first THEN pending_responses[i] ELSE pending_responses[i + 1]]

(* collaboration.py:330-332, the entries of the synthesized query are dropped *)
PurgeQuery(pending_responses, original_query) ==
    SelectSeq(pending_responses, LAMBDA e : StoredQuery(e) # original_query)

(* collaboration.py _synthesize_responses *)
SynthesizeResponses(st, original_query, oracle) ==
    LET task_responses == SelectSeq(st.pending, LAMBDA e : StoredQuery(e) = original_query)
    IN  IF task_responses = <<>>
        THEN st
        ELSE
        LET unique_agents == {task_responses[i].v.from_agent : i \in 1..Len(task_responses)}
                                 \ {""}
            num_agents == Cardinality(unique_agents)
            user_topic == task_responses[1].v.user_topic
            inputs == [i \in 1..Len(task_responses) |->
                          <<task_responses[i].v.from_agent, task_responses[i].v.result>>]
            st1 == Publish(st, [topic |-> user_topic, kind |-> "all_completed_synthesizing",
                                n |-> num_agents])
            st2 == GetCompletion(st1, "index", original_query, inputs, oracle)
            st3 == IF oracle["index"]
                   THEN Publish(Publish(st2, [topic |-> user_topic, kind |-> "synthesis",
                                              of |-> inputs]),
                                [topic |-> user_topic, kind |-> "complete", n |-> num_agents])
                   ELSE Publish(st2, [topic |-> user_topic, kind |-> "could_not_synthesize"])
        IN  [st3 EXCEPT !.pending = PurgeQuery(@, original_query)]

(* collaboration.py:183-189, the distinct subtask indices present in the
   pending-response index *)
FoundIndices(pending_responses) ==
    {x \in {Get(pending_responses[i].v.task.subtask_index, DEFAULT_STORED_INDEX) :
                i \in 1..Len(pending_responses)} : x >= 0}

AllSubtasksCompleteByEntries(pending_responses, total_subtasks) ==
    Len(pending_responses) >= total_subtasks

AllSubtasksComplete(pending_responses, total_subtasks) ==
    Cardinality(FoundIndices(pending_responses)) >= total_subtasks

(* collaboration.py:198-206, the query handed to synthesis *)
QueryForSynthesis(pending_responses, original_task) ==
    LET with == SelectSeq(pending_responses, LAMBDA e : StoredQuery(e) # "")
    IN  IF with # <<>> THEN StoredQuery(with[1]) ELSE original_task.task

(* collaboration.py _handle_agent_response *)
HandleAgentResponse(st, response_data, current_time, oracle) ==
    LET from_agent == response_data.from_agent
        task_result == response_data.task_result
        original_task == response_data.original_task
        user_topic == response_data.user_topic
        task_key == TaskKey(original_task.task,
                            Get(original_task.subtask_index, DEFAULT_KEY_INDEX))
        st1 == [st EXCEPT !.pending =
                   DictPut(@, task_key,
                           [from_agent |-> from_agent, result |-> task_result,
                            task |-> original_task, user_topic |-> user_topic])]
        st2 == CheckCollaborationCompletion(st1, from_agent, task_result, original_task,
                                            user_topic, oracle)
        st3 == CleanupTimedOutCollaborations(st2, current_time, oracle)
        total_subtasks == Get(original_task.total_subtasks, DEFAULT_TOTAL_SUBTASKS)
        st4 == IF total_subtasks > 1
               THEN Publish(st3, [topic |-> user_topic, kind |-> "completed_their_task",
                                  agent |-> from_agent])
               ELSE st3
    IN  IF AllSubtasksComplete(st4.pending, total_subtasks)
        THEN SynthesizeResponses(st4, QueryForSynthesis(st4.pending, original_task),
                                 oracle)
        ELSE st4

-----------------------------------------------------------------------------
(* Ad-hoc delegation *)

Lower(name) == IF name = "A" THEN "a" ELSE name

Capabilities(name) == IF name = "a" THEN <<"research">> ELSE <<>>

(* agent_operations.py discover_all_agents: the registry listing with the
   agents in `running` marked running *)
AgentsInfo(running) ==
    [i \in 1..2 |-> LET name == IF i = 1 THEN "a" ELSE "b"
                    IN  [name |-> name, is_running |-> name \in running,
                         capabilities |-> Capabilities(name)]]

FindAgent(agents_info, agent_name) ==
    LET hits == SelectSeq(agents_info, LAMBDA a : Lower(a.name) = Lower(agent_name))
    IN  IF hits = <<>> THEN None ELSE Some(hits[1])

IsAvailable(agents_info, agent_name) ==
    /\ FindAgent(agents_info, agent_name) # None
    /\ FindAgent(agents_info, agent_name)[1].is_running

RECURSIVE AvailableAgents(_, _, _)
AvailableAgents(agents_info, agent_names, i) ==
    IF i > Len(agent_names)
    THEN <<>>
    ELSE (IF IsAvailable(agents_info, agent_names[i])
          THEN <<FindAgent(agents_info, agent_names[i])[1]>>
          ELSE <<>>) \o AvailableAgents(agents_info, agent_names, i + 1)

RECURSIVE DelegateTo(_, _, _, _, _)
DelegateTo(st, available_agents, task, reply_to, i) ==
    IF i > Len(available_agents)
    THEN st
    ELSE LET agent_info == available_agents[i]
             capabilities == IF agent_info.capabilities = <<>>
                             THEN <<"general">>
                             ELSE agent_info.capabilities
             task_data == [from_agent |-> "assistant",
                           task |-> [task |-> task, agent_type |-> capabilities[1],
                                     priority |-> 5, subtask_index |-> 0,
                                     total_subtasks |-> 1],
                           user_topic |-> reply_to,
                           original_query |-> task]
             st1 == Publish(st, [topic |-> reply_to, kind |-> "sending_task",
                                 agent |-> agent_info.name])
             st2 == Publish(st1, [topic |-> InboxTopic(agent_info.name),
                                  kind |-> "task", data |-> task_data])
         IN  DelegateTo(st2, available_agents, task, reply_to, i + 1)

NewCollaboration(task, available_agents, reply_to, current_time) ==
    [task |-> task,
     expected_agents |-> [i \in 1..Len(available_agents) |-> available_agents[i].name],
     received_responses |-> <<>>,
     user_topic |-> reply_to,
     start_time |-> current_time,
     timeout |-> COLLAB_TIMEOUT]

(* collaboration.py _collaborate_with_agents *)
CollaborateWithAgents(st, task, agent_names, reply_to, agents_info, current_time) ==
    IF agents_info = <<>>
    THEN Publish(st, [topic |-> reply_to, kind |-> "unable_to_discover"])
    ELSE
    LET available_agents == AvailableAgents(agents_info, agent_names, 1)
        unavailable_agents == SelectSeq(agent_names,
                                        LAMBDA n : ~IsAvailable(agents_info, n))
        st1 == IF unavailable_agents # <<>>
               THEN Publish(st, [topic |-> reply_to, kind |-> "not_available",
                                 agents |-> unavailable_agents])
               ELSE st
    IN  IF available_agents = <<>>
        THEN Publish(st1, [topic |-> reply_to, kind |-> "none_available"])
        ELSE
        LET st2 == Publish(st1, [topic |-> reply_to, kind |-> "starting_collaboration",
                                 n |-> Len(available_agents)])
            st3 == DelegateTo(st2, available_agents, task, reply_to, 1)
            st4 == Publish(st3, [topic |-> reply_to, kind |-> "all_tasks_sent"])
        IN  [st4 EXCEPT
                !.hasActive = TRUE,
                !.active = DictPut(@, CollabKey(task, reply_to),
                                   NewCollaboration(task, available_agents, reply_to,
                                                    current_time))]

-----------------------------------------------------------------------------
(* Texts are sequences of characters; Python's str methods are computed
   character by character.  A value the code formats into a text with an
   f-string (an agent name) is one character of the sequence. *)

LowerChar(c) == IF c = "B" THEN "b" ELSE Lower(c)

LowerText(t) == [i \in 1..Len(t) |-> LowerChar(t[i])]

RECURSIVE LStrip(_)
LStrip(t) == IF t # <<>> /\ Head(t) = " " THEN LStrip(Tail(t)) ELSE t

RECURSIVE RStrip(_)
RStrip(t) == IF t # <<>> /\ t[Len(t)] = " " THEN RStrip(SubSeq(t, 1, Len(t) - 1)) ELSE t

StripText(t) == RStrip(LStrip(t))

-----------------------------------------------------------------------------
(* Worker agent: natural conversation (worker_agent.py) *)

DEDUP_WINDOW == 5
RECENT_LIMIT == 50

DEFAULT_REPLY_TO == "user_session:main"

AssistantName == "assistant"

(* topic.startswith("user_session:"): every topic but the agent inboxes *)
IsUserSession(topic) == topic \notin {InboxTopic(n) : n \in Registered \cup {AssistantName}}

(* base.py:36, the worker was constructed at time 0.  history is an
   observation the code does not keep: the time at which each (sender, text,
   context) was last processed *)
NewWorker == [startup_time |-> 0, hasRecent |-> FALSE, recent |-> <<>>,
              history |-> {}]

Noted(history, triple, current_time) ==
    {e \in history : e.k # triple} \cup {[k |-> triple, v |-> current_time]}

(* worker_agent.py:661 *)
MessageHash(from_agent, text, context) ==
    LowerText(StripText(<<from_agent>> \o text \o context))

RecentlySeenInclusive(recent, message_hash, current_time) ==
    /\ DictHas(recent, message_hash)
    /\ current_time - DictGet(recent, message_hash) <= DEDUP_WINDOW

(* worker_agent.py:670-674 *)
RecentlySeen(recent, message_hash, current_time) ==
    /\ DictHas(recent, message_hash)
    /\ current_time - DictGet(recent, message_hash) < DEDUP_WINDOW

(* an eviction that removes the entry recorded last *)
EvictNewest(recent) ==
    IF Len(recent) > RECENT_LIMIT
    THEN DictDel(recent, recent[Len(recent)].k)
    ELSE recent

(* worker_agent.py:679-682, min() returns the first key of the least value *)
EvictOldest(recent) ==
    IF Len(recent) > RECENT_LIMIT
    THEN LET oldest == CHOOSE i \in 1..Len(recent) :
                           /\ \A j \in 1..Len(recent) : recent[i].v <= recent[j].v
                           /\ \A j \in 1..(i - 1) : recent[j].v > recent[i].v
         IN  DictDel(recent, recent[oldest].k)
    ELSE recent

IsAssistant(sender_name) ==
    Lower(sender_name) \in {"assistant", "coordinator", "orchestrator", "user"}

(* worker_agent.py:1167-1199 _send_natural_response: the messages published *)
SendNaturalResponse(name, to_agent, response, context, reply_to, original_user_topic) ==
    LET response_data ==
            [collaboration_type |-> "natural_conversation_response",
             from_agent |-> name, original_from |-> to_agent, response |-> response,
             context |-> context, reply_to |-> reply_to,
             original_user_topic |-> original_user_topic]
    IN  <<[topic |-> InboxTopic(to_agent), kind |-> "natural_response",
           data |-> response_data]>>
        \o (IF reply_to # None /\ reply_to[1] # InboxTopic(to_agent)
            THEN <<[topic |-> reply_to[1],
                    kind |-> IF IsUserSession(reply_to[1])
                             THEN "response_text" ELSE "natural_response",
                    data |-> response_data]>>
            ELSE <<>>)

(* worker_agent.py:798-810, 1162-1164: a reply is always produced for the
   simple message format *)
ResponseTo(name, from_agent) ==
    IF IsAssistant(from_agent) THEN ResultOf(name) ELSE "hello from " \o name

(* the stale test without its guard timestamp > 0 *)
HandleNaturalConversationAllEarlier(w, name, conversation_data, current_time) ==
    LET from_agent == conversation_data.from_agent
        message_hash == MessageHash(from_agent, conversation_data.message,
                                    conversation_data.context)
        w1 == [w EXCEPT !.hasRecent = TRUE]
    IN  IF conversation_data.timestamp < w.startup_time
        THEN [w |-> w, out |-> <<>>, processed |-> FALSE]
        ELSE IF RecentlySeen(w1.recent, message_hash, current_time)
        THEN [w |-> w1, out |-> <<>>, processed |-> FALSE]
        ELSE [w |-> [w1 EXCEPT
                        !.recent = EvictOldest(DictPut(@, message_hash, current_time)),
                        !.history = Noted(@, <<from_agent, conversation_data.message,
                                               conversation_data.context>>,
                                          current_time)],
              out |-> SendNaturalResponse(
                          name, from_agent, ResponseTo(name, from_agent),
                          conversation_data.context, conversation_data.reply_to,
                          conversation_data.original_user_topic),
              processed |-> TRUE]

(* worker_agent.py:624-708 _handle_natural_conversation, simple message
   format: the worker after the call, the messages it published, and whether
   the message passed the stale and duplicate checks *)
HandleNaturalConversation(w, name, conversation_data, current_time) ==
    LET from_agent == conversation_data.from_agent
        message_hash == MessageHash(from_agent, conversation_data.message,
                                    conversation_data.context)
        w1 == [w EXCEPT !.hasRecent = TRUE]
    IN  IF conversation_data.timestamp > 0 /\ conversation_data.timestamp < w.startup_time
        THEN [w |-> w, out |-> <<>>, processed |-> FALSE]
        ELSE IF RecentlySeen(w1.recent, message_hash, current_time)
        THEN [w |-> w1, out |-> <<>>, processed |-> FALSE]
        ELSE [w |-> [w1 EXCEPT
                        !.recent = EvictOldest(DictPut(@, message_hash, current_time)),
                        !.history = Noted(@, <<from_agent, conversation_data.message,
                                               conversation_data.context>>,
                                          current_time)],
              out |-> SendNaturalResponse(
                          name, from_agent, ResponseTo(name, from_agent),
                          conversation_data.context, conversation_data.reply_to,
                          conversation_data.original_user_topic),
              processed |-> TRUE]

(* worker_agent.py:71-190 _message_handler for a message without
   collaboration_type: a delegation (from_agent and task) is converted to a
   natural conversation; data.task, formatted into the text, is one
   character of it *)
WorkerMessageHandler(w, name, data, current_time) ==
    IF "collaboration_type" \in DOMAIN data
    THEN HandleNaturalConversation(w, name, data, current_time)
    ELSE HandleNaturalConversation(
             w, name,
             [collaboration_type |-> "natural_conversation",
              from_agent |-> data.from_agent,
              message |-> <<data.from_agent, " asks: ", ToString(data.task)>>,
              context |-> <<"converted_legacy_task">>,
              timestamp |-> current_time,
              reply_to |-> Some(IF "reply_to" \in DOMAIN data
                                THEN data.reply_to ELSE DEFAULT_REPLY_TO),
              original_user_topic |-> None],
             current_time)

(* base.py:432-475 communicate_with_agent: the message published, if the
   orchestrator lists the target as running.  The assistant's message is a
   dict with the conversation so far (message_handling.py:604-631), of which
   the worker reads the latest user text (worker_agent.py:632-646): text *)
CommunicateWithAgent(name, target_agent_name, text, context, original_user_topic, running, current_time) ==
    IF target_agent_name \notin running
    THEN <<>>
    ELSE <<[topic |-> InboxTopic(target_agent_name), kind |-> "natural_conversation",
            data |-> [collaboration_type |-> "natural_conversation",
                      from_agent |-> name, message |-> text, context |-> context,
                      timestamp |-> current_time, reply_to |-> Some(InboxTopic(name)),
                      original_user_topic |-> Some(original_user_topic)]]>>

-----------------------------------------------------------------------------
(* Decomposed collaboration (agentkit/base.py, agentkit/discovery.py) *)

(* self.available_agents and self.discovery.available_agents as lists of
   names; hasattr and value of _last_assigned_agent_index; the assistant's
   agent_conversations (assistant/main.py:63), peer name to list of turns *)
NewCoordinator ==
    [available |-> <<>>, known |-> <<>>, hasLast |-> FALSE, last |-> 0,
     agent_conversations |-> <<>>]

(* discovery.py:135-163 find_agent_for_task; runbooks is what discover_agents
   fetches when no agent is known.  raised: the IndexError of line 157 when
   the stored index is past the end of the list of names *)
FindAgentForTask(c, runbooks) ==
    LET c1 == IF c.known = <<>> THEN [c EXCEPT !.known = runbooks] ELSE c
        index == IF c1.hasLast THEN c1.last ELSE 0
    IN  IF c1.known = <<>>
        THEN [c |-> c1, agent_name |-> None, raised |-> FALSE]
        ELSE IF index >= Len(c1.known)
        THEN [c |-> [c1 EXCEPT !.hasLast = TRUE, !.last = index],
              agent_name |-> None, raised |-> TRUE]
        ELSE [c |-> [c1 EXCEPT !.hasLast = TRUE,
                               !.last = (index + 1) % Len(c1.known)],
              agent_name |-> Some(c1.known[index + 1]), raised |-> FALSE]

(* base.py:216-219 with discovery.py:58-97 discover_agents: fetched is the
   list the orchestrator returns, without the agent itself; when the fetch
   fails the discovery keeps what it knew and the agent's own copy is
   emptied *)
DiscoverAgents(c, fetched, ok) ==
    IF ok
    THEN [c EXCEPT !.known = fetched, !.available = fetched]
    ELSE [c EXCEPT !.available = <<>>]

(* base.py:402-428 delegate_task: the message it publishes, if any *)
DelegateTask(c, agent_name, task_data, reply_to, current_time) ==
    IF agent_name \notin Range(c.available)
    THEN <<>>
    ELSE <<[topic |-> InboxTopic(agent_name), kind |-> "task",
            data |-> [from_agent |-> AssistantName, task |-> task_data,
                      reply_to |-> InboxTopic(AssistantName), user_topic |-> reply_to,
                      timestamp |-> current_time]]>>

(* base.py:537-563, the loop over the subtasks from the i-th on: the
   coordinator after it, the delegations published, the assignments listed *)
RECURSIVE DelegateSubtasks(_, _, _, _, _, _, _)
DelegateSubtasks(c, subtasks, i, complex_task, reply_to, runbooks, current_time) ==
    IF i > Len(subtasks)
    THEN [c |-> c, out |-> <<>>, assignments |-> <<>>]
    ELSE LET found == FindAgentForTask(c, runbooks)
             task_data == [task |-> subtasks[i].task,
                           priority |-> subtasks[i].priority,
                           dependencies |-> subtasks[i].dependencies,
                           subtask_index |-> i - 1,
                           total_subtasks |-> Len(subtasks),
                           original_query |-> complex_task]
             rest == DelegateSubtasks(found.c, subtasks, i + 1, complex_task, reply_to,
                                      runbooks, current_time)
         IN  [c |-> rest.c,
              out |-> (IF found.agent_name = None
                       THEN <<>>
                       ELSE DelegateTask(found.c, found.agent_name[1], task_data,
                                         reply_to, current_time)) \o rest.out,
              assignments |-> <<found.agent_name>> \o rest.assignments]

(* base.py:143-214 _discover_and_start_agents: the notices for the agents
   whose start failed *)
StartNotices(all_agents_info, reply_to) ==
    LET agents_to_start == SelectSeq(all_agents_info, LAMBDA a : ~a.is_running)
    IN  IF agents_to_start = <<>>
        THEN <<>>
        ELSE <<[topic |-> reply_to, kind |-> "starting_agents",
                n |-> Len(agents_to_start)]>>
             \o [i \in 1..(2 * Len(agents_to_start)) |->
                    [topic |-> reply_to,
                     kind |-> IF i % 2 = 1 THEN "starting" ELSE "failed_to_start",
                     agent |-> agents_to_start[(i + 1) \div 2].name]]

(* base.py:487-575 collaborate_on_task with a reply_to *)
CollaborateOnTask(c, complex_task, reply_to, all_agents_info, subtasks, runbooks, current_time) ==
    LET analyzing == <<[topic |-> reply_to, kind |-> "analyzing"]>>
                         \o StartNotices(all_agents_info, reply_to)
    IN  IF all_agents_info = <<>>
        THEN [c |-> c,
              out |-> analyzing \o <<[topic |-> reply_to, kind |-> "no_agents_available"]>>]
        ELSE
        LET running == SelectSeq(all_agents_info, LAMBDA a : a.is_running)
            c1 == [c EXCEPT !.available = [i \in 1..Len(running) |-> running[i].name]]
            started == <<[topic |-> reply_to, kind |-> "collaboration_started",
                          agents |-> c1.available, n |-> Len(subtasks)]>>
        IN  IF subtasks = <<>>
            THEN [c |-> c1, out |-> analyzing \o started]
            ELSE LET loop == DelegateSubtasks(c1, subtasks, 1, complex_task, reply_to,
                                              runbooks, current_time)
                 IN  [c |-> loop.c,
                      out |-> analyzing \o started \o loop.out
                              \o <<[topic |-> reply_to, kind |-> "delegating",
                                    assignments |-> loop.assignments],
                                   [topic |-> reply_to, kind |-> "all_delegated",
                                    n |-> Len(subtasks)]>>]

-----------------------------------------------------------------------------
(* Inputs *)

(* agent_names as the caller writes them: a capitalised name, an unknown
   name *)
NameLists == {<<"A">>, <<"A", "b">>, <<"z", "b">>}

DiscoverOutcomes == {<<>>, AgentsInfo(Registered), AgentsInfo({"b"})}

(* original_task as the worker echoes it: the ad-hoc payload of
   _collaborate_with_agents, or a decomposed subtask of collaborate_on_task *)
AdHocTask(t) ==
    [task |-> t, subtask_index |-> Some(0), total_subtasks |-> Some(1),
     original_query |-> None]

Shapes == {s \in (0..(MaxTotal - 1)) \X (1..MaxTotal) : s[1] < s[2]}

DecomposedTasks(tasks) ==
    {[task |-> t, subtask_index |-> Some(s[1]), total_subtasks |-> Some(s[2]),
      original_query |-> Some(q)] :
        t \in tasks, q \in Queries, s \in Shapes}

(* reply_to: the user topics *)
AdHocTopics == {"u", "v"}

Response(agent, original_task, topic) ==
    [from_agent |-> agent, task_result |-> ResultOf(agent),
     original_task |-> original_task, user_topic |-> topic]

AdHocResponses ==
    {Response(a, AdHocTask("t"), u) : a \in Registered, u \in AdHocTopics}

(* Decomposed tasks whose subtask texts are "t" and "s", answered for one
   user topic, beside ad-hoc answers on "t" *)
IndexTexts == {"t", "s"}

IndexResponses ==
    {Response(a, task, "u") :
        a \in Registered, task \in DecomposedTasks(IndexTexts) \cup {AdHocTask("t")}}

(* Ad-hoc answers on "t" beside the answers of one decomposed task *)
MixedResponses ==
    {Response(a, task, "u") :
        a \in Registered, task \in DecomposedTasks({"s"}) \cup {AdHocTask("t")}}

AllKeys == {CollabKey(t, u) : t \in IndexTexts, u \in AdHocTopics}

-----------------------------------------------------------------------------
(* Process supervisor (orchestrator/app/agent_lifecycle.py, main.py) *)

(* agent_lifecycle.py:12 running_processes = {}; the agent records of the
   database; the pids of the live processes; the number of processes
   launched; whether the startup event has run *)
NewSupervisor ==
    [running_processes |-> <<>>, agents |-> <<>>, alive |-> {}, foreign |-> {},
     launched |-> <<>>, up |-> FALSE]

(* running_processes maps a name to its process handle, here the pid;
   agents maps a name to the status and pid of its database record; alive
   are the pids of the live processes the supervisor may signal, foreign
   those of live processes it may not (os.kill raises PermissionError);
   launched[pid] is the name the child pid was launched for *)
AgentRecord(status, pid) == [status |-> status, pid |-> pid]

(* agent_lifecycle.py:174-269 start_agent_by_name after the check of line
   176: the child is launched and tracked, or the launch fails (no runbook
   or directory, virtual environment not set up, Popen raises) *)
Launch(s, agent_name, launches) ==
    IF launches
    THEN LET pid == Len(s.launched) + 1
         IN  [s |-> [s EXCEPT !.launched = Append(@, agent_name),
                              !.alive = @ \cup {pid},
                              !.running_processes = DictPut(@, agent_name, pid)],
              ok |-> TRUE]
    ELSE [s |-> s, ok |-> FALSE]

StartAgentByNameUnchecked(s, agent_name, launches) ==
    Launch(s, agent_name, launches)

StartAgentByName(s, agent_name, launches) ==
    IF DictHas(s.running_processes, agent_name)
    THEN [s |-> s, ok |-> FALSE]
    ELSE Launch(s, agent_name, launches)

(* agent_lifecycle.py:29-58 the tracked branch of stop_agent_process for
   the handle pid: exits tells whether the process ends on SIGTERM within
   the 3 seconds, on SIGKILL, or not within the 2 seconds after it
   (process.wait raises) *)
StopTracked(s, agent_name, pid, exits) ==
    IF pid \notin s.alive
    THEN [s |-> [s EXCEPT !.running_processes = DictDel(@, agent_name)],
          signals |-> <<>>, raised |-> FALSE]
    ELSE IF exits = "stuck"
    THEN [s |-> s, signals |-> <<"SIGTERM", "SIGKILL">>, raised |-> TRUE]
    ELSE [s |-> [s EXCEPT !.alive = @ \ {pid},
                          !.running_processes = DictDel(@, agent_name)],
          signals |-> IF exits = "term" THEN <<"SIGTERM">>
                      ELSE <<"SIGTERM", "SIGKILL">>,
          raised |-> FALSE]

(* agent_lifecycle.py:61-68 the stale pid of the database record *)
StopStale(s, agent_name) ==
    LET pid == DictGet(s.agents, agent_name).pid[1]
    IN  IF pid \in s.foreign
        THEN [s |-> s, signals |-> <<"SIGTERM">>, raised |-> TRUE]
        ELSE [s |-> [s EXCEPT !.alive = @ \ {pid}],
              signals |-> <<"SIGTERM">>, raised |-> FALSE]

StopRecordUntouched(s, agent_name, signals) ==
    [s |-> s, ok |-> DictHas(s.agents, agent_name), signals |-> signals]

(* agent_lifecycle.py:70-77 *)
StopRecord(s, agent_name, signals) ==
    IF DictHas(s.agents, agent_name)
    THEN [s |-> [s EXCEPT !.agents =
                     DictPut(@, agent_name, AgentRecord("stopped", None))],
          ok |-> TRUE, signals |-> signals]
    ELSE [s |-> s, ok |-> FALSE, signals |-> signals]

(* agent_lifecycle.py:18-77 stop_agent_process with the handle tracked
   read at line 28 *)
StopWith(s, agent_name, tracked, exits) ==
    LET done == IF tracked # None
                THEN StopTracked(s, agent_name, tracked[1], exits)
                ELSE IF /\ DictHas(s.agents, agent_name)
                        /\ DictGet(s.agents, agent_name).pid # None
                        /\ DictGet(s.agents, agent_name).status = "running"
                THEN StopStale(s, agent_name)
                ELSE [s |-> s, signals |-> <<>>, raised |-> FALSE]
    IN  IF done.raised
        THEN [s |-> done.s, ok |-> FALSE, signals |-> done.signals]
        ELSE StopRecord(done.s, agent_name, done.signals)

Tracked(s, agent_name) ==
    IF DictHas(s.running_processes, agent_name)
    THEN Some(DictGet(s.running_processes, agent_name)) ELSE None

StopAgentProcess(s, agent_name, exits) ==
    StopWith(s, agent_name, Tracked(s, agent_name), exits)

CleanupNoPidKept(s) ==
    [s EXCEPT !.agents =
        [i \in 1..Len(@) |->
            IF @[i].v.status = "running" /\ @[i].v.pid # None
               /\ @[i].v.pid[1] \notin s.alive
            THEN [@[i] EXCEPT !.v = AgentRecord("stopped", None)]
            ELSE @[i]]]

(* agent_lifecycle.py:80-115 cleanup_stale_agents: os.kill(pid, 0) returns
   for a live process the supervisor may signal and raises OSError
   otherwise *)
CleanupStaleAgents(s) ==
    [s EXCEPT !.agents =
        [i \in 1..Len(@) |->
            IF @[i].v.status # "running" THEN @[i]
            ELSE IF @[i].v.pid = None
            THEN [@[i] EXCEPT !.v.status = "stopped"]
            ELSE IF @[i].v.pid[1] \in s.alive THEN @[i]
            ELSE [@[i] EXCEPT !.v = AgentRecord("stopped", None)]]]

(* main.py:269-300 register_agent, called by the agent process *)
RegisterAgent(s, agent_name) ==
    [s EXCEPT !.agents =
        DictPut(@, agent_name, AgentRecord("running", Tracked(s, agent_name)))]

(* main.py:439-456 delete_agent: the kill by the pid of the record, when
   the stop did not succeed *)
KillByPid(s, agent_name) ==
    IF /\ DictHas(s.agents, agent_name)
       /\ DictGet(s.agents, agent_name).status = "running"
       /\ DictGet(s.agents, agent_name).pid # None
    THEN [s EXCEPT !.alive = @ \ {DictGet(s.agents, agent_name).pid[1]}]
    ELSE s

(* main.py:458-466: the record is deleted and the name popped from the
   process table *)
Forget(s, agent_name) ==
    [s EXCEPT !.agents = DictDel(@, agent_name),
              !.running_processes = DictDel(@, agent_name)]

(* main.py:433-456 delete_agent: the stop of a tracked agent, else the
   kill by pid *)
DeleteStop(s, agent_name, exits) ==
    LET stop == IF DictHas(s.running_processes, agent_name)
                THEN StopAgentProcess(s, agent_name, exits)
                ELSE [s |-> s, ok |-> FALSE, signals |-> <<>>]
    IN  IF stop.ok THEN stop.s ELSE KillByPid(stop.s, agent_name)

(* main.py:418-498 delete_agent for an agent with a runbook *)
DeleteAgent(s, agent_name, exits) ==
    Forget(DeleteStop(s, agent_name, exits), agent_name)

-----------------------------------------------------------------------------
(* State machine *)

(* no decomposition requested, the supervisor not started *)
Idle ==
    /\ request = None
    /\ decomposed = None
    /\ sup = NewSupervisor
    /\ threads = <<>>

Self == [hasActive |-> hasActive, active |-> active, pending |-> pending,
         sent |-> <<>>, calls |-> <<>>]

Become(st, operation) ==
    /\ hasActive' = st.hasActive
    /\ active' = st.active
    /\ pending' = st.pending
    /\ sent' = st.sent
    /\ calls' = st.calls
    /\ op' = operation

Init ==
    /\ now = 0
    /\ hasActive = FALSE
    /\ active = <<>>
    /\ pending = <<>>
    /\ cur = None
    /\ sent = <<>>
    /\ calls = <<>>
    /\ op = "init"
    /\ wire = <<>>
    /\ coord = NewCoordinator
    /\ workers = [w \in Registered |-> NewWorker]
    /\ message = <<>>
    /\ mentions = None
    /\ Idle

(* time.time() advances by d, or up to the horizon MaxTime *)
Tick ==
    \E d \in TickSteps :
        /\ now < MaxTime
        /\ now' = IF now + d <= MaxTime THEN now + d ELSE MaxTime
        /\ Become(Self, "tick")
        /\ cur' = None
        /\ UNCHANGED beside

CollaborateOn(tasks, topics, lists) ==
    \E task \in tasks, reply_to \in topics, agent_names \in lists,
       agents_info \in DiscoverOutcomes :
        /\ Become(CollaborateWithAgents(Self, task, agent_names, reply_to, agents_info, now),
                  "collaborate")
        /\ cur' = None
        /\ UNCHANGED <<now, beside>>

RECURSIVE StoredResponses(_, _)
StoredResponses(d, i) ==
    IF i > Len(d) THEN 0
    ELSE Len(d[i].v.received_responses) + StoredResponses(d, i + 1)

WithinBounds(r) ==
    LET key == CollabKey(r.original_task.task, r.user_topic)
        task_key == TaskKey(r.original_task.task,
                            Get(r.original_task.subtask_index, DEFAULT_KEY_INDEX))
    IN  /\ DictHas(active, key) => StoredResponses(active, 1) < MaxResponses
        /\ DictHas(pending, task_key) \/ Len(pending) < MaxPending

(* The completion service answers each call with content (TRUE) or with
   nothing (FALSE); only the calls the handler makes are given an answer. *)
AllAnswer == [w \in {"complete", "index"} \cup AllKeys |-> TRUE]

CallsMade(r) == {c.who : c \in Range(HandleAgentResponse(Self, r, now, AllAnswer).calls)}

(* message_handling.py dispatches an inbox message that carries from_agent
   and task_result to _handle_agent_response *)
HandleFrom(responses) ==
    \E r \in responses :
        /\ WithinBounds(r)
        /\ \E answers \in [CallsMade(r) -> BOOLEAN] :
              Become(HandleAgentResponse(Self, r, now,
                         [w \in DOMAIN AllAnswer |->
                             IF w \in DOMAIN answers THEN answers[w] ELSE TRUE]),
                     "handle")
        /\ cur' = Some(r)
        /\ UNCHANGED <<now, beside>>

(* Ad-hoc collaboration on one task text for two user topics *)
Next ==
    \/ Tick
    \/ CollaborateOn({"t"}, AdHocTopics, NameLists)
    \/ HandleFrom(AdHocResponses)

Spec == Init /\ [][Next]_vars

(* The index-based mechanism alone: no ad-hoc session is started *)
NextIndex == HandleFrom(IndexResponses)

SpecIndex == Init /\ [][NextIndex]_vars

(* Both mechanisms: the index beside one ad-hoc session that expects agent b.
   Time keeps advancing; nothing makes an agent respond or the user start a
   collaboration *)
NextMixed ==
    \/ Tick
    \/ CollaborateOn({"t"}, {"u"}, {<<"b">>})
    \/ HandleFrom(MixedResponses)

LiveSpec == Init /\ [][NextMixed]_vars /\ WF_vars(Tick)

-----------------------------------------------------------------------------
(* Decomposed collaboration end to end: the coordinator delegates, the
   workers and the coordinator take messages from their inboxes *)

MaxSubtasks == 2
MaxWire == 2

(* what decompose_task returns: one to MaxSubtasks subtasks *)
SubtaskLists ==
    {[i \in 1..n |-> [task |-> IF i = 1 THEN "t" ELSE "s", agent_type |-> "general",
                      priority |-> 5, dependencies |-> <<>>]] : n \in 1..MaxSubtasks}

(* GET /agents/runbooks as discover_agents reads it: both agents, or nothing *)
RunbookListings == {<<"a", "b">>, <<>>}

ToInbox(messages) ==
    SelectSeq(messages, LAMBDA m : ~IsUserSession(m.topic))

FirstFor(topic) ==
    {i \in 1..Len(wire) :
        /\ wire[i].topic = topic
        /\ \A j \in 1..(i - 1) : wire[j].topic # topic}

Without(messages, i) ==
    [j \in 1..(Len(messages) - 1) |-> IF j < i THEN messages[j] ELSE messages[j + 1]]

TaskOn(topics) ==
    \E complex_task \in Queries, reply_to \in topics, subtasks \in SubtaskLists,
       all_agents_info \in DiscoverOutcomes, runbooks \in RunbookListings :
        LET done == CollaborateOnTask(coord, complex_task, reply_to, all_agents_info,
                                      subtasks, runbooks, now)
        IN  /\ Len(wire) + Len(ToInbox(done.out)) <= MaxWire
            /\ coord' = done.c
            /\ sent' = done.out
            /\ wire' = wire \o ToInbox(done.out)
            /\ cur' = Some([complex_task |-> complex_task, reply_to |-> reply_to,
                            subtasks |-> subtasks, all_agents_info |-> all_agents_info,
                            runbooks |-> runbooks])
            /\ calls' = <<>>
            /\ op' = "task"
            /\ UNCHANGED <<now, hasActive, active, pending, workers, message, mentions, apart>>

(* messaging.py:101-116: a worker's subscription hands it the next message
   of its inbox topic *)
WorkerReceive ==
    \E name \in Registered : \E i \in FirstFor(InboxTopic(name)) :
        LET done == WorkerMessageHandler(workers[name], name, wire[i].data, now)
        IN  /\ workers' = [workers EXCEPT ![name] = done.w]
            /\ sent' = done.out
            /\ wire' = Without(wire, i) \o ToInbox(done.out)
            /\ cur' = Some(wire[i])
            /\ calls' = <<>>
            /\ op' = IF done.processed THEN "worker" ELSE "worker_ignored"
            /\ UNCHANGED <<now, hasActive, active, pending, coord, message, mentions, apart>>

(* message_handling.py:13-45 _message_handler of the assistant for a message
   of an agent: a correlated response goes to _handle_agent_response, a
   natural conversation response is dropped *)
AssistantReceive ==
    \E i \in FirstFor(InboxTopic(AssistantName)) :
        /\ wire' = Without(wire, i)
        /\ cur' = Some(wire[i].data)
        /\ IF "task_result" \in DOMAIN wire[i].data
           THEN \E answers \in [CallsMade(wire[i].data) -> BOOLEAN] :
                    Become(HandleAgentResponse(Self, wire[i].data, now,
                               [w \in DOMAIN AllAnswer |->
                                   IF w \in DOMAIN answers THEN answers[w] ELSE TRUE]),
                           "handle")
           ELSE Become(Self, "dropped")
        /\ UNCHANGED <<now, coord, workers, message, mentions, apart>>

(* The exchange within one instant of the clock *)
NextTask ==
    \/ TaskOn({"u"})
    \/ WorkerReceive
    \/ AssistantReceive

SpecTask == Init /\ [][NextTask]_vars

(* Ad-hoc collaboration with the delegations in flight: every delegation
   published is answered once, after any delay, by a response of the form
   _handle_agent_response reads.  The field asked, the time of the
   delegation, is carried along for observation only; no message of the
   program has it. *)
AgentOf(topic) == CHOOSE n \in Registered : InboxTopic(n) = topic

InFlight(messages, current_time) ==
    [i \in 1..Len(messages) |->
        [topic |-> messages[i].topic, kind |-> "task", data |-> messages[i].data,
         asked |-> current_time]]

AskAgents ==
    \E agent_names \in NameLists, agents_info \in DiscoverOutcomes :
        LET st == CollaborateWithAgents(Self, "t", agent_names, "u", agents_info, now)
            delegations == SelectSeq(st.sent, LAMBDA m : m.kind = "task")
        IN  /\ Len(wire) + Len(delegations) <= MaxWire
            /\ Become(st, "collaborate")
            /\ wire' = wire \o InFlight(delegations, now)
            /\ cur' = None
            /\ UNCHANGED <<now, coord, workers, message, mentions, apart>>

AgentAnswers ==
    \E i \in 1..Len(wire) :
        LET r == Response(AgentOf(wire[i].topic), AdHocTask(wire[i].data.task.task),
                          wire[i].data.user_topic)
        IN  /\ WithinBounds(r)
            /\ \E answers \in [CallsMade(r) -> BOOLEAN] :
                  Become(HandleAgentResponse(Self, r, now,
                             [w \in DOMAIN AllAnswer |->
                                 IF w \in DOMAIN answers THEN answers[w] ELSE TRUE]),
                         "handle")
            /\ wire' = Without(wire, i)
            /\ cur' = Some(r @@ [asked |-> wire[i].asked])
            /\ UNCHANGED <<now, coord, workers, message, mentions, apart>>

NextAttribution ==
    \/ Tick
    \/ AskAgents
    \/ AgentAnswers

SpecAttribution == Init /\ [][NextAttribution]_vars

(* Natural conversation between the assistant and the workers: the
   assistant passes on what the user said on a user topic; the
   subscriptions keep delivering the inbox messages. *)
SendNaturalMessageToAgent ==
    \E agent_name \in Registered, text \in {<<"b">>}, reply_to \in AdHocTopics,
       running \in {Registered, {"b"}} :
        LET out == CommunicateWithAgent(AssistantName, agent_name, text,
                                        <<"assistant_coordination">>, reply_to, running, now)
        IN  /\ Len(wire) + Len(out) <= MaxWire
            /\ wire' = wire \o out
            /\ sent' = out
            /\ cur' = Some([agent_name |-> agent_name, text |-> text,
                            reply_to |-> reply_to, running |-> running])
            /\ calls' = <<>>
            /\ op' = "say"
            /\ UNCHANGED <<now, hasActive, active, pending, coord, workers, message,
                           mentions, apart>>

NextConversation ==
    \/ SendNaturalMessageToAgent
    \/ WorkerReceive
    \/ AssistantReceive

SpecConversation ==
    /\ Init
    /\ [][NextConversation]_vars
    /\ WF_vars(WorkerReceive)
    /\ WF_vars(AssistantReceive)

(* One worker in natural conversation.  The worker b was constructed at
   WorkerStart.  A sender repeats one message, in two spellings, and sends a
   burst of messages that are all different; the clock jumps by just under
   or by exactly the deduplication window, between bursts. *)
WorkerStart == 2
MaxClock == 7
MaxStream == RECENT_LIMIT + 1

Conversation(from_agent, text, context, timestamp) ==
    [collaboration_type |-> "natural_conversation", from_agent |-> from_agent,
     message |-> text, context |-> context, timestamp |-> timestamp,
     reply_to |-> None, original_user_topic |-> None]

WatchedTexts == {<<"b">>, <<"B">>}

(* the number of the burst's messages the worker has processed *)
StreamSeen(w) == Cardinality({e \in w.history : e.k[2] \notin WatchedTexts})

(* timestamp absent (0), from before the worker started, or current *)
Timestamps == {0, WorkerStart - 1, now}

ConversationsNow ==
    {Conversation("a", text, <<>>, ts) : text \in WatchedTexts, ts \in Timestamps}
    \cup {Conversation("a", <<"m", ToString(StreamSeen(workers["b"]) + 1)>>, <<>>, now) :
              x \in {y \in {1} : StreamSeen(workers["b"]) < MaxStream}}

InitWorker ==
    /\ now = WorkerStart
    /\ hasActive = FALSE
    /\ active = <<>>
    /\ pending = <<>>
    /\ cur = None
    /\ sent = <<>>
    /\ calls = <<>>
    /\ op = "init"
    /\ wire = <<>>
    /\ coord = NewCoordinator
    /\ message = <<>>
    /\ mentions = None
    /\ Idle
    /\ workers = [w \in Registered |-> [NewWorker EXCEPT !.startup_time = WorkerStart]]

(* time.time() between two messages *)
Pass ==
    \E d \in {DEDUP_WINDOW - 1, DEDUP_WINDOW} :
        /\ now + d <= MaxClock
        /\ StreamSeen(workers["b"]) \in {0, MaxStream}
        /\ now' = now + d
        /\ Become(Self, "pass")
        /\ cur' = None
        /\ UNCHANGED beside

(* worker_agent.py:148-150: a natural conversation reaches worker b *)
Converse ==
    \E data \in ConversationsNow :
        LET done == WorkerMessageHandler(workers["b"], "b", data, now)
        IN  /\ workers' = [workers EXCEPT !["b"] = done.w]
            /\ sent' = done.out
            /\ cur' = Some(data)
            /\ calls' = <<>>
            /\ op' = IF done.processed THEN "converse" ELSE "converse_ignored"
            /\ UNCHANGED <<now, hasActive, active, pending, wire, coord, message,
                           mentions, apart>>

NextWorker == Pass \/ Converse

SpecWorker == InitWorker /\ [][NextWorker]_vars

-----------------------------------------------------------------------------
(* Mention extraction (orchestrator/app/routing.py) *)

(* \w over the characters of the model's texts *)
IsWord(c) == c \notin {"@", ".", " "}

(* (?<!\w) before position i, (?!\.) at position j *)
NotAfterWord(t, i) == i = 1 \/ ~IsWord(t[i - 1])
NotBeforeDot(t, j) == j > Len(t) \/ t[j] # "."

RECURSIVE WordRun(_, _)
WordRun(t, i) == IF i <= Len(t) /\ IsWord(t[i]) THEN 1 + WordRun(t, i + 1) ELSE 0

(* routing.py:33 pattern matched at position i: the length of the group
   (\w+), 0 when there is no match.  \w+ is greedy and gives characters back:
   when the whole run is followed by a dot, the run less its last character
   is followed by a word character and matches *)
PatternAt(t, i) ==
    IF t[i] # "@" \/ ~NotAfterWord(t, i)
    THEN 0
    ELSE LET n == WordRun(t, i + 1)
         IN  IF n = 0 THEN 0
             ELSE IF NotBeforeDot(t, i + 1 + n) THEN n
             ELSE n - 1

(* routing.py:34 re.findall(pattern, message), scanning from position i *)
RECURSIVE FindAll(_, _)
FindAll(t, i) ==
    IF i > Len(t) THEN <<>>
    ELSE LET n == PatternAt(t, i)
         IN  IF n > 0
             THEN <<SubSeq(t, i + 1, i + n)>> \o FindAll(t, i + 1 + n)
             ELSE FindAll(t, i + 1)

(* routing.py:43 names of the registered agents, lower-cased *)
RegisteredAgents == {LowerText(<<n>>) : n \in Registered}

(* routing.py:50-57 *)
RECURSIVE AgentNames(_, _)
AgentNames(matches, agent_names) ==
    IF matches = <<>> THEN agent_names
    ELSE LET name_lower == LowerText(Head(matches))
         IN  AgentNames(Tail(matches),
                        IF name_lower \notin Range(agent_names)
                           /\ name_lower \in RegisteredAgents
                        THEN Append(agent_names, name_lower)
                        ELSE agent_names)

(* name matches the text at position i, ignoring case *)
NameAt(t, i, name) ==
    /\ i + Len(name) - 1 <= Len(t)
    /\ \A k \in 1..Len(name) : LowerChar(t[i + k - 1]) = LowerChar(name[k])

(* routing.py:62 valid_pattern matched at position i: the length of the
   first alternative that matches and is not followed by a dot, 0 when
   there is no match *)
ValidPatternAt(t, i, agent_names) ==
    IF t[i] # "@" \/ ~NotAfterWord(t, i)
    THEN 0
    ELSE LET fits == {k \in 1..Len(agent_names) :
                         /\ NameAt(t, i + 1, agent_names[k])
                         /\ NotBeforeDot(t, i + 1 + Len(agent_names[k]))}
         IN  IF fits = {} THEN 0
             ELSE Len(agent_names[CHOOSE k \in fits : \A j \in fits : k <= j])

(* routing.py:63 re.sub(valid_pattern, '', message, flags=re.IGNORECASE) *)
RECURSIVE SubValid(_, _, _)
SubValid(t, i, agent_names) ==
    IF i > Len(t) THEN <<>>
    ELSE LET n == ValidPatternAt(t, i, agent_names)
         IN  IF n > 0
             THEN SubValid(t, i + 1 + n, agent_names)
             ELSE <<t[i]>> \o SubValid(t, i + 1, agent_names)

(* routing.py:10-66 extract_mentions *)
ExtractMentions(text) ==
    LET matches == FindAll(text, 1)
        agent_names == AgentNames(matches, <<>>)
    IN  IF matches # <<>> /\ agent_names # <<>>
        THEN [agent_names |-> agent_names,
              cleaned_message |-> StripText(SubValid(text, 1, agent_names))]
        ELSE [agent_names |-> <<>>, cleaned_message |-> text]

(* The user messages: every text of at most MaxText characters over a
   registered name in two spellings, another registered name, and the
   characters the patterns tell apart *)
MaxText == 6
TextChars == {"a", "b", "B", "@", ".", " "}
Texts == UNION {[1..n -> TextChars] : n \in 0..MaxText}

InitMentions ==
    /\ message \in Texts
    /\ mentions = None
    /\ Idle
    /\ now = 0
    /\ hasActive = FALSE
    /\ active = <<>>
    /\ pending = <<>>
    /\ cur = None
    /\ sent = <<>>
    /\ calls = <<>>
    /\ op = "init"
    /\ wire = <<>>
    /\ coord = NewCoordinator
    /\ workers = [w \in Registered |-> NewWorker]

(* a user message is routed: extract_mentions(message) *)
Route ==
    /\ mentions = None
    /\ mentions' = Some(ExtractMentions(message))
    /\ op' = "route"
    /\ UNCHANGED <<now, hasActive, active, pending, cur, sent, calls, wire, coord,
                   workers, message, apart>>

SpecMentions == InitMentions /\ [][Route]_vars

-----------------------------------------------------------------------------
(* Round-robin selection while discoveries change the known agents *)

(* The orchestrator's registry (main.py:360, 485, 640, 647) lists the
   runbooks in the order of registration; agents are created and deleted
   between two fetches, so a fetch returns any list without repetition *)
RoundNames == {"a", "b", "c"}

Rosters ==
    {r \in UNION {[1..n -> RoundNames] : n \in 0..Cardinality(RoundNames)} :
        \A i, j \in 1..Len(r) : i # j => r[i] # r[j]}

(* the names returned since the set of known agents last changed, the last
   N of them for N known agents *)
Streak == IF cur = None THEN <<>> ELSE cur[1].streak

LastN(q, n) == IF Len(q) > n THEN SubSeq(q, Len(q) - n + 1, Len(q)) ELSE q

RoundOnly ==
    /\ sent' = <<>>
    /\ calls' = <<>>
    /\ UNCHANGED <<now, hasActive, active, pending, wire, workers, message, mentions,
                   apart>>

Discover ==
    \E fetched \in Rosters, ok \in BOOLEAN :
        /\ coord' = DiscoverAgents(coord, fetched, ok)
        /\ cur' = Some([agent_name |-> None, raised |-> FALSE,
                        streak |-> IF Range(coord'.known) = Range(coord.known)
                                   THEN Streak ELSE <<>>])
        /\ op' = "discover"
        /\ RoundOnly

Find ==
    \E fetched \in Rosters :
        LET found == FindAgentForTask(coord, fetched)
            since == IF Range(found.c.known) = Range(coord.known) THEN Streak ELSE <<>>
        IN  /\ coord' = found.c
            /\ cur' = Some([agent_name |-> found.agent_name, raised |-> found.raised,
                            streak |-> IF found.agent_name = None THEN since
                                       ELSE LastN(Append(since, found.agent_name[1]),
                                                  Len(found.c.known))])
            /\ op' = IF found.raised THEN "find_raised" ELSE "find"
            /\ RoundOnly

NextRound ==
    \/ Discover
    \/ Find

SpecRound == Init /\ [][NextRound]_vars

-----------------------------------------------------------------------------
(* Mention routing of what the agents say on the user-session topic
   (orchestrator/app/main.py redis_to_ws) and the workers' replies *)

RECURSIVE WhiteRun(_, _)
WhiteRun(t, i) == IF i <= Len(t) /\ t[i] = " " THEN 1 + WhiteRun(t, i + 1) ELSE 0

(* main.py:966 re.sub(rf'@{agent}\s*', '', line, flags=re.IGNORECASE) *)
RECURSIVE DropMention(_, _, _)
DropMention(line, agent, i) ==
    IF i > Len(line) THEN <<>>
    ELSE IF /\ line[i] = "@"
            /\ i + Len(agent) <= Len(line)
            /\ LowerText(SubSeq(line, i + 1, i + Len(agent))) = agent
         THEN DropMention(line, agent,
                          i + 1 + Len(agent) + WhiteRun(line, i + 1 + Len(agent)))
         ELSE <<line[i]>> \o DropMention(line, agent, i + 1)

(* main.py:946-999 for a content of one line: the payloads published to the
   inboxes of the mentioned agents whose record is running *)
RouteMentions(content, running, user_session_topic) ==
    LET mentioned_agents == ExtractMentions(content).agent_names
        targets == SelectSeq(mentioned_agents, LAMBDA agent : agent[1] \in running)
    IN  [i \in 1..Len(targets) |->
            [topic |-> InboxTopic(targets[i][1]), kind |-> "user_mention",
             text |-> StripText(DropMention(content, targets[i], 1)),
             reply_to |-> user_session_topic]]

(* worker_agent.py:152-163 a payload with a messages array and no
   collaboration_type: a natural conversation from "user"; text is the
   content of the latest user message *)
WorkerUserMention(w, name, text, reply_to, current_time) ==
    HandleNaturalConversation(
        w, name,
        [collaboration_type |-> "natural_conversation", from_agent |-> "user",
         message |-> text, context |-> <<"user_mention">>, timestamp |-> current_time,
         reply_to |-> Some(reply_to), original_user_topic |-> None],
        current_time)

(* What the completion service makes a worker say is open: here a worker
   either mentions nobody or passes the next of MaxStream texts on to the
   other worker. *)
Said(k) == <<"m", ToString(k)>>

Other(name) == IF name = "a" THEN "b" ELSE "a"

ReplyContents(name, text) ==
    LET k == CHOOSE j \in 1..MaxStream : Said(j) = text
    IN  {<<"o", "k">>, <<"@", Other(name), " ">> \o Said((k % MaxStream) + 1)}

(* main.py:1031-1083 ws_to_redis: the user's one prompt, "@a " followed by
   Said(1); agent a is mentioned and running, and is sent the prompt
   without the mention *)
UserAsks ==
    /\ op = "init"
    /\ wire' = <<[topic |-> InboxTopic("a"), kind |-> "user_mention", text |-> Said(1),
                  reply_to |-> DEFAULT_REPLY_TO]>>
    /\ sent' = wire'
    /\ cur' = None
    /\ calls' = <<>>
    /\ op' = "user"
    /\ UNCHANGED <<now, hasActive, active, pending, coord, workers, message, mentions,
                   apart>>

(* messaging.py:101-116, worker_agent.py:71-163: a worker takes the payload
   from its inbox; what it says goes to reply_to under its name
   (messaging.py:47-54) *)
WorkerTakes ==
    \E name \in Registered : \E i \in FirstFor(InboxTopic(name)) :
        \E reply \in ReplyContents(name, wire[i].text) :
            LET done == WorkerUserMention(workers[name], name, wire[i].text,
                                          wire[i].reply_to, now)
                said == IF \E j \in 1..Len(done.out) : done.out[j].topic = wire[i].reply_to
                        THEN <<[topic |-> wire[i].reply_to, kind |-> "agent_output",
                                sender |-> name, content |-> reply]>>
                        ELSE <<>>
            IN  /\ workers' = [workers EXCEPT ![name] = done.w]
                /\ sent' = said
                /\ wire' = Without(wire, i) \o said
                /\ cur' = Some(wire[i])
                /\ calls' = <<>>
                /\ op' = IF done.processed THEN "worker" ELSE "worker_ignored"
                /\ UNCHANGED <<now, hasActive, active, pending, coord, message, mentions,
                               apart>>

(* main.py:919-999 redis_to_ws takes an agent's output from the
   user-session topic and routes it to the agents it mentions *)
RedisToWs ==
    \E i \in FirstFor(DEFAULT_REPLY_TO), running \in {Registered, {"a"}} :
        LET routed == RouteMentions(wire[i].content, running, DEFAULT_REPLY_TO)
        IN  /\ wire' = Without(wire, i) \o routed
            /\ sent' = routed
            /\ cur' = Some(wire[i])
            /\ calls' = <<>>
            /\ op' = "routed"
            /\ UNCHANGED <<now, hasActive, active, pending, coord, workers, message,
                           mentions, apart>>

NextLoop ==
    \/ UserAsks
    \/ WorkerTakes
    \/ RedisToWs

(* A worker can take a payload exactly when one is waiting in its inbox,
   and redis_to_ws can route exactly when an output is waiting *)
InboxWaiting == \E name \in Registered : FirstFor(InboxTopic(name)) # {}

OutputWaiting == FirstFor(DEFAULT_REPLY_TO) # {}

(* The user does send the message, and both deliveries are weakly fair: the
   subscriber threads keep polling (messaging.py:101-116) and redis_to_ws
   keeps reading (main.py:919).  The two delivery conditions are
   WF_vars(WorkerTakes) and WF_vars(RedisToWs) written out, with
   InboxWaiting and OutputWaiting for the ENABLED of each, which TLC does
   not evaluate in reasonable time for these two actions. *)
SpecLoop ==
    /\ Init
    /\ [][NextLoop]_vars
    /\ WF_vars(UserAsks)
    /\ ([]<>(~OutputWaiting) \/ []<><<RedisToWs>>_vars)
    /\ ([]<>(~InboxWaiting) \/ []<><<WorkerTakes>>_vars)

-----------------------------------------------------------------------------
(* Peer conversation history (assistant/message_handling.py) *)

(* message_handling.py:97 conversation[-5:] *)
HISTORY_TURNS == 5

(* the longest history the assistant builds here *)
MaxTurns == 7

(* str.title() of the roles in use *)
Title(role) == IF role = "user" THEN "User" ELSE IF role = "assistant" THEN "Assistant" ELSE role

(* message_handling.py:94-105 the system message for one peer *)
HistoryMessage(agent_name, conversation) ==
    [role |-> "system", about |-> agent_name,
     turns |-> [k \in 1..Len(LastN(conversation, HISTORY_TURNS)) |->
                   [role |-> Title(LastN(conversation, HISTORY_TURNS)[k].role),
                    content |-> LastN(conversation, HISTORY_TURNS)[k].content]]]

(* message_handling.py:92-107 the loop from the i-th peer on; each system
   message is inserted at the front *)
RECURSIVE EnhanceFrom(_, _, _)
EnhanceFrom(agent_conversations, i, enhanced_messages) ==
    IF i > Len(agent_conversations) THEN enhanced_messages
    ELSE EnhanceFrom(agent_conversations, i + 1,
                     IF agent_conversations[i].v # <<>>
                     THEN <<HistoryMessage(agent_conversations[i].k,
                                           agent_conversations[i].v)>>
                          \o enhanced_messages
                     ELSE enhanced_messages)

(* message_handling.py:75-107 _enhance_messages_with_agent_history *)
EnhanceMessagesWithAgentHistory(agent_conversations, messages) ==
    IF agent_conversations = <<>> THEN messages
    ELSE EnhanceFrom(agent_conversations, 1, messages)

ConversationWith(c, agent_name) ==
    IF DictHas(c.agent_conversations, agent_name)
    THEN DictGet(c.agent_conversations, agent_name) ELSE <<>>

(* message_handling.py:594-609 the history after the message is appended *)
WithTurn(c, agent_name, sanitized_message) ==
    Append(ConversationWith(c, agent_name), [role |-> "user", content |-> sanitized_message])

(* message_handling.py:581-636 _send_natural_message_to_agent with the
   history: the turn is stored whether or not the agent is running, and the
   payload carries the whole stored list (base.py:432-475) *)
SendWithHistory ==
    \E agent_name \in Registered, reply_to \in {"u"}, running \in {Registered, {"b"}} :
        LET text == Said(Len(ConversationWith(coord, agent_name)) + 1)
            stored == WithTurn(coord, agent_name, text)
            out == IF agent_name \notin running THEN <<>>
                   ELSE <<[topic |-> InboxTopic(agent_name), kind |-> "natural_conversation",
                           data |-> [collaboration_type |-> "natural_conversation",
                                     from_agent |-> AssistantName, messages |-> stored,
                                     context |-> <<"assistant_coordination">>,
                                     timestamp |-> now,
                                     reply_to |-> Some(InboxTopic(AssistantName)),
                                     original_user_topic |-> Some(reply_to)]]>>
        IN  /\ Len(stored) <= MaxTurns
            /\ Len(wire) + Len(out) <= MaxWire
            /\ coord' = [coord EXCEPT !.agent_conversations =
                             DictPut(@, agent_name, stored)]
            /\ wire' = wire \o out
            /\ sent' = out
            /\ cur' = Some([agent_name |-> agent_name, stored |-> stored])
            /\ calls' = <<>>
            /\ op' = "say_history"
            /\ UNCHANGED <<now, hasActive, active, pending, workers, message, mentions,
                           apart>>

(* worker_agent.py:634-640 the content of the latest user turn *)
LatestUser(messages_array) ==
    LET users == {k \in 1..Len(messages_array) : messages_array[k].role = "user"}
    IN  IF users = {} THEN <<>>
        ELSE messages_array[CHOOSE k \in users : \A l \in users : l <= k].content

(* worker_agent.py:624-708 with a messages array from the assistant, and
   812-919 _respond_to_assistant_with_history: the completion request is
   made with the messages array as received *)
WorkerCompletes ==
    \E name \in Registered : \E i \in FirstFor(InboxTopic(name)) :
        LET data == wire[i].data
            done == HandleNaturalConversation(
                        workers[name], name,
                        [collaboration_type |-> data.collaboration_type,
                         from_agent |-> data.from_agent,
                         message |-> LatestUser(data.messages),
                         context |-> data.context, timestamp |-> data.timestamp,
                         reply_to |-> data.reply_to,
                         original_user_topic |-> data.original_user_topic],
                        now)
        IN  /\ workers' = [workers EXCEPT ![name] = done.w]
            /\ wire' = Without(wire, i)
            /\ sent' = done.out
            /\ cur' = Some([agent_name |-> name, messages |-> data.messages])
            /\ calls' = IF done.processed THEN <<[messages |-> data.messages]>> ELSE <<>>
            /\ op' = IF done.processed THEN "completion" ELSE "completion_skipped"
            /\ UNCHANGED <<now, hasActive, active, pending, coord, message, mentions,
                           apart>>

(* the assistant's own request, enhanced with the histories *)
Enhance ==
    \E messages \in {<<>>, <<[role |-> "user", content |-> Said(1)]>>} :
        /\ cur' = Some([messages |-> messages,
                        enhanced |-> EnhanceMessagesWithAgentHistory(
                                         coord.agent_conversations, messages)])
        /\ op' = "enhance"
        /\ sent' = <<>>
        /\ calls' = <<>>
        /\ UNCHANGED <<now, hasActive, active, pending, wire, coord, workers, message,
                       mentions, apart>>

NextHistory ==
    \/ SendWithHistory
    \/ WorkerCompletes
    \/ Enhance

SpecHistory == Init /\ [][NextHistory]_vars

-----------------------------------------------------------------------------
(* Task decomposition (agentkit/base.py decompose_task) *)

(* a task is the list of its words, complex_task.split(); the words are
   lower-case and a keyword occurs as a word *)
ComplexKeywords ==
    {"research", "analyze", "strategy", "future", "development", "comprehensive",
     "explore", "investigate"}

HasComplexKeywords(complex_task) ==
    \E i \in 1..Len(complex_task) : complex_task[i] \in ComplexKeywords

(* base.py:221-231 *)
CapabilityName(agent_name) == "capability of " \o agent_name

Subtask(text, complex_task, agent_type, priority, dependencies) ==
    [task |-> <<text, complex_task>>, agent_type |-> agent_type,
     priority |-> priority, dependencies |-> dependencies]

ListOf(items) == [type |-> "list", items |-> items]

(* the two-subtask and three-subtask returns; available_agents are the
   names known after discover_agents *)
TwoSubtasks(complex_task, available_agents) ==
    LET known == Len(available_agents) >= 2
    IN  ListOf(<<Subtask("Research and gather information about", complex_task,
                         IF known THEN CapabilityName(available_agents[1])
                                  ELSE "research", 5, <<>>),
                 Subtask("Create comprehensive response for", complex_task,
                         IF known THEN CapabilityName(available_agents[2])
                                  ELSE "creative", 4, <<0>>)>>)

ThreeSubtasks(complex_task, available_agents) ==
    LET known == Len(available_agents) >= 2
    IN  ListOf(<<Subtask("Research and gather information about", complex_task,
                         IF known THEN CapabilityName(available_agents[1])
                                  ELSE "research", 5, <<>>),
                 Subtask("Create content based on", complex_task,
                         IF known THEN CapabilityName(available_agents[2])
                                  ELSE "creative", 4, <<0>>),
                 Subtask("Review and improve the content for", complex_task,
                         IF Len(available_agents) >= 3
                         THEN CapabilityName(available_agents[3])
                         ELSE IF known THEN CapabilityName(available_agents[2])
                         ELSE "review", 3, <<1>>)>>)

(* base.py:237-400 decompose_task.  outcome is what the completion meets:
   no client, a null result, a result that is not JSON, an exception inside
   the try block, or the value json.loads returns *)
DecomposeTask(complex_task, outcome, available_agents) ==
    LET task_length == Len(complex_task)
    IN  CASE outcome.kind = "no_client" ->
                 ListOf(<<[task |-> complex_task, agent |-> None,
                           reasoning |-> "No OpenAI client available"]>>)
          [] outcome.kind = "json" -> outcome.value
          [] outcome.kind = "not_json" ->
                 IF task_length < 8 /\ ~HasComplexKeywords(complex_task)
                 THEN ListOf(<<Subtask("", complex_task, "general", 5, <<>>)>>)
                 ELSE IF task_length < 15 \/ HasComplexKeywords(complex_task)
                 THEN TwoSubtasks(complex_task, available_agents)
                 ELSE ThreeSubtasks(complex_task, available_agents)
          [] outcome.kind = "null" ->
                 IF task_length < 10
                 THEN ListOf(<<Subtask("Handle this request", complex_task,
                                       "general", 5, <<>>)>>)
                 ELSE IF task_length < 20
                 THEN TwoSubtasks(complex_task, available_agents)
                 ELSE ThreeSubtasks(complex_task, available_agents)
          [] outcome.kind = "raises" ->
                 IF task_length < 10
                 THEN ListOf(<<Subtask("", complex_task, "general", 5, <<>>)>>)
                 ELSE ThreeSubtasks(complex_task,
                                    IF Len(available_agents) >= 2
                                    THEN SubSeq(available_agents, 1, 2)
                                    ELSE <<>>)

(* The tasks of up to MaxWords words, with and without a keyword as the last
   word *)
MaxWords == 21

Tasks ==
    {[i \in 1..n |-> "do"] : n \in 0..MaxWords}
    \cup {[i \in 1..n |-> IF i = n THEN "research" ELSE "do"] : n \in 1..MaxWords}

(* what the completion meets; the values json.loads can return: an empty
   list, a list of one subtask, a list of one object of another shape, a
   list of six subtasks, an object, a number *)
Outcomes ==
    {[kind |-> k, value |-> ListOf(<<>>)] : k \in {"no_client", "null", "not_json", "raises"}}
    \cup {[kind |-> "json", value |-> v] :
             v \in {ListOf(<<>>),
                    ListOf(<<Subtask("", <<"do">>, "general", 5, <<>>)>>),
                    ListOf(<<[task |-> "do"]>>),
                    ListOf([i \in 1..6 |-> Subtask("", <<"do">>, "general", i, <<>>)]),
                    [type |-> "dict", items |-> <<>>],
                    [type |-> "number", items |-> <<>>]}}

InitDecompose ==
    /\ now = 0
    /\ hasActive = FALSE
    /\ active = <<>>
    /\ pending = <<>>
    /\ cur = None
    /\ sent = <<>>
    /\ calls = <<>>
    /\ op = "init"
    /\ wire = <<>>
    /\ coord = NewCoordinator
    /\ workers = [w \in Registered |-> NewWorker]
    /\ message = <<>>
    /\ mentions = None
    /\ request \in {Some([task |-> t, outcome |-> o, available_agents |-> a]) :
                       t \in Tasks, o \in Outcomes, a \in {<<>>, <<"a", "b">>}}
    /\ decomposed = None
    /\ sup = NewSupervisor
    /\ threads = <<>>

(* base.py:526 subtasks = self.decompose_task(complex_task) *)
Decompose ==
    /\ decomposed = None
    /\ decomposed' = Some(DecomposeTask(request[1].task, request[1].outcome,
                                        request[1].available_agents))
    /\ op' = "decompose"
    /\ UNCHANGED <<now, hasActive, active, pending, cur, sent, calls, wire, coord,
                   workers, message, mentions, request, sup, threads>>

SpecDecompose == InitDecompose /\ [][Decompose]_vars

-----------------------------------------------------------------------------
(* The process supervisor, one request at a time.  The database holds what
   a previous run of the supervisor left: per agent no record, a stopped
   record, or a running record without pid or with the pid StalePid, which
   is dead, live, or a live process of another user. *)
MaxLaunched == 2

StalePid(agent_name) == IF agent_name = "a" THEN 91 ELSE 92

LeftBehind(agent_name) ==
    {None, Some(AgentRecord("stopped", None)), Some(AgentRecord("running", None)),
     Some(AgentRecord("running", Some(StalePid(agent_name))))}

InitSupervisor ==
    /\ now = 0
    /\ hasActive = FALSE
    /\ active = <<>>
    /\ pending = <<>>
    /\ cur = None
    /\ sent = <<>>
    /\ calls = <<>>
    /\ op = "init"
    /\ wire = <<>>
    /\ coord = NewCoordinator
    /\ workers = [w \in Registered |-> NewWorker]
    /\ message = <<>>
    /\ mentions = None
    /\ request = None
    /\ decomposed = None
    /\ threads = <<>>
    /\ \E ra \in LeftBehind("a"), rb \in LeftBehind("b"),
          live \in SUBSET {StalePid("a"), StalePid("b")},
          other \in SUBSET {StalePid("a")} :
           /\ live \cap other = {}
           /\ sup = [NewSupervisor EXCEPT
                        !.agents = (IF ra = None THEN <<>> ELSE <<[k |-> "a", v |-> ra[1]]>>)
                                   \o (IF rb = None THEN <<>> ELSE <<[k |-> "b", v |-> rb[1]]>>),
                        !.alive = live,
                        !.foreign = other]

(* every supervisor action leaves the agents' side alone *)
SupervisorOnly ==
    UNCHANGED <<now, hasActive, active, pending, sent, calls, wire, coord, workers,
                message, mentions, request, decomposed>>

(* main.py:177-190 startup_event: cleanup_stale_agents *)
Startup ==
    /\ ~sup.up
    /\ sup' = [CleanupStaleAgents(sup) EXCEPT !.up = TRUE]
    /\ op' = "cleanup"
    /\ cur' = Some([before |-> sup.agents])
    /\ UNCHANGED threads
    /\ SupervisorOnly

(* main.py:307-310 POST /agents/start *)
StartRequest ==
    \E agent_name \in Registered, launches \in BOOLEAN :
        LET done == StartAgentByName(sup, agent_name, launches)
        IN  /\ sup.up
            /\ Len(sup.launched) < MaxLaunched
            /\ sup' = done.s
            /\ op' = "start"
            /\ cur' = Some([name |-> agent_name, ok |-> done.ok])
            /\ UNCHANGED threads
            /\ SupervisorOnly

(* main.py:321-324 POST /agents/stop *)
StopRequest ==
    \E agent_name \in Registered, exits \in {"term", "kill", "stuck"} :
        LET done == StopAgentProcess(sup, agent_name, exits)
        IN  /\ sup.up
            /\ sup' = done.s
            /\ op' = "stop"
            /\ cur' = Some([name |-> agent_name, ok |-> done.ok,
                            signals |-> done.signals, exits |-> exits])
            /\ UNCHANGED threads
            /\ SupervisorOnly

(* main.py:418-498 POST /agents/delete *)
DeleteRequest ==
    \E agent_name \in Registered, exits \in {"term", "kill", "stuck"} :
        /\ sup.up
        /\ sup' = DeleteAgent(sup, agent_name, exits)
        /\ op' = "delete"
        /\ cur' = Some([name |-> agent_name, ok |-> TRUE])
        /\ UNCHANGED threads
        /\ SupervisorOnly

(* main.py:269-300 POST /agents/register, sent by a running agent *)
Register ==
    \E agent_name \in Registered :
        /\ sup.up
        /\ Tracked(sup, agent_name) # None
        /\ Tracked(sup, agent_name)[1] \in sup.alive
        /\ sup' = RegisterAgent(sup, agent_name)
        /\ op' = "register"
        /\ cur' = Some([name |-> agent_name, ok |-> TRUE])
        /\ UNCHANGED threads
        /\ SupervisorOnly

(* a process ends by itself *)
Die ==
    \E pid \in sup.alive :
        /\ sup' = [sup EXCEPT !.alive = @ \ {pid}]
        /\ op' = "die"
        /\ cur' = None
        /\ UNCHANGED threads
        /\ SupervisorOnly

NextSupervisor ==
    \/ Startup
    \/ StartRequest
    \/ StopRequest
    \/ DeleteRequest
    \/ Register
    \/ Die

SpecSupervisor == InitSupervisor /\ [][NextSupervisor]_vars

-----------------------------------------------------------------------------
(* The process supervisor with requests in progress at the same time: the
   endpoints are plain functions, which the server runs in the threads of
   a pool, and no lock guards running_processes.  A request is a thread
   between the statements that read or write the table; the processes end
   on the signals sent to them. *)
MaxThreads == 2

Thread(kind, agent_name, tracked) ==
    [kind |-> kind, name |-> agent_name, tracked |-> tracked]

InitRace ==
    /\ now = 0
    /\ hasActive = FALSE
    /\ active = <<>>
    /\ pending = <<>>
    /\ cur = None
    /\ sent = <<>>
    /\ calls = <<>>
    /\ op = "init"
    /\ wire = <<>>
    /\ coord = NewCoordinator
    /\ workers = [w \in Registered |-> NewWorker]
    /\ message = <<>>
    /\ mentions = None
    /\ request = None
    /\ decomposed = None
    /\ threads = <<>>
    /\ sup = [NewSupervisor EXCEPT
                 !.agents = <<[k |-> "a", v |-> AgentRecord("stopped", None)],
                              [k |-> "b", v |-> AgentRecord("stopped", None)]>>,
                 !.up = TRUE]

(* agent_lifecycle.py:176-177: the test of the process table *)
StartCheck ==
    \E agent_name \in Registered :
        /\ Len(threads) < MaxThreads
        /\ Len(sup.launched) < MaxLaunched
        /\ IF DictHas(sup.running_processes, agent_name)
           THEN /\ op' = "start"
                /\ cur' = Some([name |-> agent_name, ok |-> FALSE])
                /\ UNCHANGED threads
           ELSE /\ op' = "start_check"
                /\ cur' = None
                /\ threads' = Append(threads, Thread("start", agent_name, None))
        /\ UNCHANGED sup
        /\ SupervisorOnly

(* agent_lifecycle.py:212-242: Popen and the entry in the table *)
StartLaunch ==
    \E i \in 1..Len(threads), launches \in BOOLEAN :
        LET done == Launch(sup, threads[i].name, launches)
        IN  /\ threads[i].kind = "start"
            /\ sup' = done.s
            /\ threads' = Without(threads, i)
            /\ op' = "start"
            /\ cur' = Some([name |-> threads[i].name, ok |-> done.ok])
            /\ SupervisorOnly

(* agent_lifecycle.py:28: the handle is read from the table *)
StopLookup ==
    \E agent_name \in Registered :
        /\ Len(threads) < MaxThreads
        /\ threads' = Append(threads, Thread("stop", agent_name, Tracked(sup, agent_name)))
        /\ op' = "stop_lookup"
        /\ cur' = None
        /\ UNCHANGED sup
        /\ SupervisorOnly

(* agent_lifecycle.py:29-77: the signals, the pop and the record *)
StopFinish ==
    \E i \in 1..Len(threads), exits \in {"term", "kill"} :
        LET done == StopWith(sup, threads[i].name, threads[i].tracked, exits)
        IN  /\ threads[i].kind = "stop"
            /\ sup' = done.s
            /\ threads' = Without(threads, i)
            /\ op' = "stop"
            /\ cur' = Some([name |-> threads[i].name, ok |-> done.ok,
                            signals |-> done.signals, exits |-> exits])
            /\ SupervisorOnly

(* main.py:433-456: delete_agent stops the agent *)
DeleteStopped ==
    \E agent_name \in Registered, exits \in {"term", "kill"} :
        /\ Len(threads) < MaxThreads
        /\ sup' = DeleteStop(sup, agent_name, exits)
        /\ threads' = Append(threads, Thread("delete", agent_name, None))
        /\ op' = "delete_stop"
        /\ cur' = None
        /\ SupervisorOnly

(* main.py:458-466: the record is deleted and the name popped *)
DeleteForget ==
    \E i \in 1..Len(threads) :
        /\ threads[i].kind = "delete"
        /\ sup' = Forget(sup, threads[i].name)
        /\ threads' = Without(threads, i)
        /\ op' = "delete"
        /\ cur' = Some([name |-> threads[i].name, ok |-> TRUE])
        /\ SupervisorOnly

NextRace ==
    \/ StartCheck
    \/ StartLaunch
    \/ StopLookup
    \/ StopFinish
    \/ DeleteStopped
    \/ DeleteForget
    \/ Register

SpecRace == InitRace /\ [][NextRace]_vars

(* The index with the subtasks of two user queries, all answered by agent a *)
NextQueries ==
    HandleFrom({Response("a",
                         [task |-> t, subtask_index |-> Some(sh[1]),
                          total_subtasks |-> Some(sh[2]), original_query |-> Some(q)],
                         "u") :
                    t \in IndexTexts, q \in {"q", "p"}, sh \in Shapes})

SpecQueries == Init /\ [][NextQueries]_vars

(* The index with the subtasks of two user queries of MaxTotal subtasks
   each, beside the answer to an ad-hoc delegation, all from agent a *)
QueryTasks(queries) ==
    {[task |-> t, subtask_index |-> Some(i), total_subtasks |-> Some(MaxTotal),
      original_query |-> Some(q)] :
        t \in IndexTexts, q \in queries, i \in 0..(MaxTotal - 1)}

NextIsolation ==
    HandleFrom({Response("a", task, "u") :
                    task \in QueryTasks({"q", "p"}) \cup {AdHocTask("t")}})

SpecIsolation == Init /\ [][NextIsolation]_vars

-----------------------------------------------------------------------------
(* Observations used by the properties.  In a step of _handle_agent_response
   the response handled is cur'[1]; unprimed variables are the state before
   the handler ran, primed ones the state when it returned. *)

HandleStep == op' = "handle"

CollaborateStep == op' = "collaborate"

SentTo(messages, topic) == SelectSeq(messages, LAMBDA m : m.topic = topic)

Kinds(messages) == {messages[i].kind : i \in 1..Len(messages)}

HandledKey == CollabKey(cur'[1].original_task.task, cur'[1].user_topic)

HandledSession == DictGet(active, HandledKey)

Matches == hasActive /\ DictHas(active, HandledKey)

ReceivedWithHandled == ReceivedAgents(HandledSession) \cup {cur'[1].from_agent}

ExpectedAllIn == Range(HandledSession.expected_agents) \subseteq ReceivedWithHandled

Overdue(collaboration) == now - collaboration.start_time > COLLAB_TIMEOUT

CompletionNotices == {"agent_response", "received_from", "collaboration_complete",
                      "still_waiting"}

IndexNotices == {"completed_their_task", "all_completed_synthesizing", "synthesis",
                 "complete", "could_not_synthesize"}

(* After the handler returned: it announced a completion; the key of the
   response it handled *)
JustCompleted == op = "handle" /\ "collaboration_complete" \in Kinds(sent)

CompletedKey == CollabKey(cur[1].original_task.task, cur[1].user_topic)

(* The session under HandledKey was completed by this step: every response it
   holds was sent to the user, completion was announced, the session is gone *)
CompletedNow ==
    /\ ~DictHas(active', HandledKey)
    /\ "collaboration_complete" \in Kinds(SentTo(sent', cur'[1].user_topic))
    /\ \A a \in ReceivedWithHandled :
          \E i \in 1..Len(sent') :
              /\ sent'[i].kind = "agent_response"
              /\ sent'[i].topic = cur'[1].user_topic
              /\ sent'[i].agent = a
              /\ sent'[i].text = ResultOf(a)

-----------------------------------------------------------------------------
(* C1: when the handler takes a response for an active session, the session
   is completed (every held result sent, completion announced, session
   removed) exactly when every expected agent name occurs among the agents of
   the received responses, this one included; the number of responses does
   not matter. *)
C1_SetContainment ==
    [][(HandleStep /\ Matches) => (CompletedNow <=> ExpectedAllIn)]_vars

(* a session expecting a and b completed after a, a, b *)
C1_RepeatThenComplete ==
    /\ op = "handle"
    /\ "collaboration_complete" \in Kinds(sent)
    /\ Cardinality({i \in 1..Len(sent) :
                       sent[i].kind = "agent_response" /\ sent[i].agent = "a"}) >= 2
    /\ \E i \in 1..Len(sent) : sent[i].kind = "agent_response" /\ sent[i].agent = "b"

(* C2: in every reachable state the agents of every active session's received
   responses are among its expected agents. *)
C2_ReceivedWithinExpected ==
    \A i \in 1..Len(active) :
        ReceivedAgents(active[i].v) \subseteq Range(active[i].v.expected_agents)

Continues(old, new) ==
    /\ new.expected_agents = old.expected_agents
    /\ new.start_time = old.start_time
    /\ Len(new.received_responses) >= Len(old.received_responses)
    /\ SubSeq(new.received_responses, 1, Len(old.received_responses))
           = old.received_responses

Leaves(e) ==
    \/ ~DictHas(active', e.k)
    \/ ~Continues(e.v, DictGet(active', e.k))

(* C3: a session leaves active_collaborations, or is replaced under its key,
   only in a handler step that completes it or sweeps it as timed out. *)
C3_LeavesOnlyByCompletionOrTimeout ==
    [][\A i \in 1..Len(active) :
          Leaves(active[i]) =>
              /\ HandleStep
              /\ \/ Overdue(active[i].v)
                 \/ active[i].k = HandledKey /\ ExpectedAllIn]_vars

(* C4 as stated: a session whose expected agents have all responded is
   removed in the same handler step, and the key of a session that was
   completed is not active afterwards: the step that follows the completion
   does not make it active. *)
C4_NeverActiveAgain ==
    [][/\ (HandleStep /\ Matches /\ ExpectedAllIn) => ~DictHas(active', HandledKey)
       /\ JustCompleted => ~DictHas(active', CompletedKey)]_vars

(* C4 amended: a session whose expected agents have all responded is removed
   in the same handler step; a key that is not active becomes active only by
   a new _collaborate_with_agents call, as a session that holds no response;
   the handler never brings a session back. *)
C4_ActiveAgainOnlyByCollaborate ==
    [][/\ (HandleStep /\ Matches /\ ExpectedAllIn) => ~DictHas(active', HandledKey)
       /\ \A k \in DictKeys(active') \ DictKeys(active) :
              CollaborateStep /\ DictGet(active', k).received_responses = <<>>]_vars

(* a session was completed by the response just handled and is gone *)
C4_CompletedAndRemoved ==
    /\ JustCompleted
    /\ hasActive
    /\ ~DictHas(active, CompletedKey)

(* C5: when the handler has returned, no active session is older than its
   timeout. *)
C5_NoOverdueAfterHandle ==
    op = "handle" => \A i \in 1..Len(active) : ~Overdue(active[i].v)

(* the handler swept a timed-out session of another user topic than the one
   of the response it handled, and left a younger session in place *)
C5_SweptOtherSession ==
    /\ op = "handle"
    /\ now > COLLAB_TIMEOUT
    /\ \E i \in 1..Len(sent) :
          sent[i].kind = "timed_out_no_responses" /\ sent[i].topic # cur[1].user_topic
    /\ active # <<>>

HeldAtSweep(e) ==
    Len(e.v.received_responses) + (IF Matches /\ e.k = HandledKey THEN 1 ELSE 0)

SweptNow(e) ==
    /\ Overdue(e.v)
    /\ ~(Matches /\ e.k = HandledKey /\ ExpectedAllIn)

TimeoutNotices(e) ==
    SelectSeq(SentTo(sent', e.v.user_topic), LAMBDA m : m.kind # "still_waiting")

SynthesisCalls(e) == {c \in Range(calls') : c.who = e.k}

C6_NoticeByCount(e) ==
    /\ HeldAtSweep(e) = 0 =>
          /\ Kinds(TimeoutNotices(e)) = {"timed_out_no_responses"}
          /\ SynthesisCalls(e) = {}
    /\ HeldAtSweep(e) = 1 =>
          /\ Kinds(TimeoutNotices(e)) = {"timed_out_processing", "response_from"}
          /\ \E i \in 1..Len(sent') :
                /\ sent'[i].kind = "response_from"
                /\ sent'[i].text = ResultOf(sent'[i].agent)
          /\ SynthesisCalls(e) = {}
    /\ HeldAtSweep(e) >= 2 =>
          /\ "timed_out_processing" \in Kinds(TimeoutNotices(e))
          /\ \E c \in SynthesisCalls(e) : Len(c.inputs) = HeldAtSweep(e)

(* C6: a session the sweep times out gets a notice by the number of responses
   it holds: none, the notice that nothing was received and nothing else;
   one, the response itself and no completion-service call; two or more, a
   synthesis whose combined answer is published to the user. *)
C6_TimeoutDelivers ==
    [][HandleStep =>
          \A i \in 1..Len(active) :
              SweptNow(active[i]) =>
                  /\ C6_NoticeByCount(active[i])
                  /\ HeldAtSweep(active[i]) >= 2 =>
                        "final_answer" \in Kinds(TimeoutNotices(active[i]))]_vars

(* a session timed out holding two responses *)
C6_SweptWithTwo ==
    /\ op = "handle"
    /\ \E i \in 1..Len(sent) : sent[i].kind = "timed_out_processing" /\ sent[i].n = 2

WaitingInIndex ==
    \E i \in 1..Len(pending) : pending[i].v.task.original_query # None

SomeOverdue == \E i \in 1..Len(active) : Overdue(active[i].v)

(* C7: under advancing time every collaboration in which a delegated agent
   stays silent is eventually resolved: an active session older than its
   timeout is eventually removed, and a decomposed task waiting in the
   pending-response index is eventually purged. *)
C7_EventuallyResolved ==
    /\ SomeOverdue ~> ~SomeOverdue
    /\ WaitingInIndex ~> ~WaitingInIndex

(* C8: a handler step that ends a session publishes exactly one message to
   the session's user topic. *)
C8_ExactlyOneMessage ==
    [][HandleStep =>
          \A i \in 1..Len(active) :
              ~DictHas(active', active[i].k) =>
                  Len(SentTo(sent', active[i].v.user_topic)) = 1]_vars

(* a session ended by a handler step that published to its user topic *)
C8_SessionEnded ==
    /\ op = "handle"
    /\ \E i \in 1..Len(sent) :
          sent[i].kind \in {"collaboration_complete", "timed_out_processing",
                            "timed_out_no_responses"}

(* C9 as stated: handling a response whose key matches no active session
   publishes nothing to the user topic and leaves active_collaborations
   unchanged. *)
C9_MissIsSilent ==
    [][(HandleStep /\ ~Matches) =>
          (SentTo(sent', cur'[1].user_topic) = <<>> /\ active' = active)]_vars

(* C9 amended: handling a response whose key matches no active session adds
   the response to no session and publishes none of the notices of session
   completion; the sessions it removes are the timed-out ones, every other
   session is unchanged; unless a session is timed out, it publishes nothing
   but what the index mechanism publishes. *)
C9_MissTouchesNoSession ==
    [][(HandleStep /\ ~Matches) =>
          /\ Kinds(sent') \cap CompletionNotices = {}
          /\ active' = SelectSeq(active, LAMBDA e : ~Overdue(e.v))
          /\ (\A i \in 1..Len(active) : ~Overdue(active[i].v)) =>
                 Kinds(sent') \subseteq IndexNotices]_vars

(* the response to a session the sweep removed earlier finds nothing: the
   handler returns having published nothing *)
C9_LateResponse ==
    /\ op = "handle"
    /\ now > COLLAB_TIMEOUT
    /\ hasActive
    /\ active = <<>>
    /\ sent = <<>>

IndicesPresent(p) == {p[i].v.task.subtask_index[1] : i \in 1..Len(p)}

IndicesWithHandled ==
    IndicesPresent(pending) \cup {cur'[1].original_task.subtask_index[1]}

(* C10: when the handler has stored a response of a decomposed task that
   declares N subtasks, synthesis is triggered exactly when the responses in
   the pending-response index carry at least N distinct subtask indices; a
   second response for an index already present adds nothing to the count,
   and the order of arrival does not matter. *)
C10_TriggeredByDistinctIndices ==
    [][(HandleStep /\ cur'[1].original_task.original_query # None) =>
          ("all_completed_synthesizing" \in Kinds(sent')
              <=> Cardinality(IndicesWithHandled)
                      >= cur'[1].original_task.total_subtasks[1])]_vars

(* two responses with the same index are held and the task of two subtasks
   is not synthesized *)
C10_DuplicateIndexWaits ==
    /\ op = "handle"
    /\ Len(pending) = 2
    /\ Cardinality(IndicesPresent(pending)) = 1
    /\ cur[1].original_task.total_subtasks = Some(2)
    /\ "completed_their_task" \in Kinds(sent)
    /\ "all_completed_synthesizing" \notin Kinds(sent)

-----------------------------------------------------------------------------
(* Synthesis with no contributing response *)

(* the pending-response index once the handler has stored cur'[1] *)
StoredByHandle ==
    DictPut(pending,
            TaskKey(cur'[1].original_task.task,
                    Get(cur'[1].original_task.subtask_index, DEFAULT_KEY_INDEX)),
            [from_agent |-> cur'[1].from_agent, result |-> cur'[1].task_result,
             task |-> cur'[1].original_task, user_topic |-> cur'[1].user_topic])

(* the query the handler hands to _synthesize_responses, when it does *)
InvokedQuery == QueryForSynthesis(StoredByHandle, cur'[1].original_task)

SynthesisInvoked ==
    Cardinality(FoundIndices(StoredByHandle))
        >= Get(cur'[1].original_task.total_subtasks, DEFAULT_TOTAL_SUBTASKS)

Contributing(p, q) == SelectSeq(p, LAMBDA e : Get(e.v.task.original_query, "") = q)

SynthesisNotices == {"all_completed_synthesizing", "synthesis", "complete",
                     "could_not_synthesize"}

IndexAnswers == {[AllAnswer EXCEPT !["index"] = b] : b \in BOOLEAN}

(* C11: synthesis with zero inputs does nothing.  A handler step that invokes
   _synthesize_responses with a query no pending response carries publishes
   none of the synthesis messages, makes no completion-service call and
   leaves the pending-response index as the handler stored it; in every
   reachable state _synthesize_responses applied to a query without
   contributing response, and _synthesize_collaboration_responses applied to
   a session without response, change nothing. *)
C11_ZeroInputsNoOp ==
    /\ [][(HandleStep /\ SynthesisInvoked /\ Contributing(StoredByHandle, InvokedQuery) = <<>>) =>
             /\ Kinds(sent') \cap SynthesisNotices = {}
             /\ \A c \in Range(calls') : c.who # "index"
             /\ pending' = StoredByHandle]_vars
    /\ [](\A q \in Queries \cup IndexTexts : \A o \in IndexAnswers :
             Contributing(pending, q) = <<>> => SynthesizeResponses(Self, q, o) = Self)
    /\ [](\A i \in 1..Len(active) : \A b \in BOOLEAN :
             active[i].v.received_responses = <<>> =>
                 SynthesizeCollaborationResponses(
                     Self, active[i].v, active[i].k,
                     [AllAnswer EXCEPT ![active[i].k] = b]) = Self)

(* the handler invoked synthesis for an ad-hoc response whose task text is no
   stored original_query: nothing was published and the entry stays *)
C11_InvokedWithNothing ==
    /\ op = "handle"
    /\ cur[1].original_task.original_query = None
    /\ \A i \in 1..Len(pending) : pending[i].v.task.original_query = None
    /\ pending # <<>>
    /\ sent = <<>>
    /\ calls = <<>>

(* C12: the completion service is never called for exactly one contributing
   response: every get_completion call a handler step makes, from the
   index-based synthesis, from the completion of a session or from its
   timeout, combines at least two responses. *)
C12_SingleBypassesService ==
    [][HandleStep => \A c \in Range(calls') : Len(c.inputs) >= 2]_vars

(* the only response of a decomposed task of one subtask was handed to the
   completion service *)
C12_SingleSynthesized ==
    /\ op = "handle"
    /\ cur[1].original_task.total_subtasks = Some(1)
    /\ \E c \in Range(calls) : c.who = "index" /\ Len(c.inputs) = 1

(* C13: when a handler step runs _synthesize_responses for a query with at
   least one contributing response, then, whether or not the completion
   service returned content, no entry of that query remains in the
   pending-response index, and the entries of every other query are what
   they were, in their order. *)
C13_PurgesExactlyTheQuery ==
    [][HandleStep =>
          \A c \in Range(calls') :
              c.who = "index" =>
                  /\ \A i \in 1..Len(pending') :
                        Get(pending'[i].v.task.original_query, "") # c.about
                  /\ pending' = SelectSeq(StoredByHandle,
                                    LAMBDA e : Get(e.v.task.original_query, "") # c.about)]_vars

(* synthesis of one query failed for want of content and its entries are
   gone, while an entry of the other query is still held *)
C13_OtherQueryKept ==
    /\ op = "handle"
    /\ "could_not_synthesize" \in Kinds(sent)
    /\ \E c \in Range(calls) :
          /\ c.who = "index"
          /\ Len(c.inputs) = 2
          /\ \E i \in 1..Len(pending) :
                pending[i].v.task.original_query \notin {None, Some(c.about)}

(* C14: whenever a handler step attempts a synthesis (index-based, or for a
   session on its completion or its timeout) and the completion service
   returns no content, the step publishes to the user topic the message that
   responses were received but could not be combined. *)
C14_FailureIsReported ==
    [][HandleStep =>
          \A c \in Range(calls') :
              ~c.content =>
                  \E i \in 1..Len(sent') :
                      /\ sent'[i].kind = "could_not_synthesize"
                      /\ sent'[i].topic \in AdHocTopics]_vars

(* a completed session of two responses was handed to the completion
   service, which returned nothing; the last message is the completion
   notice *)
C14_SilentFailure ==
    /\ op = "handle"
    /\ \E c \in Range(calls) : c.who = "complete" /\ ~c.content
    /\ sent[Len(sent)].kind = "synthesizing"

-----------------------------------------------------------------------------
(* Decomposed collaboration: observations.  In a step of collaborate_on_task
   cur'[1] holds the arguments and what discovery and the decomposer
   returned; in a worker's step it is the inbox message taken; in the
   assistant's step it is the payload taken. *)

TaskStep == op' = "task"

WorkerStep == op' \in {"worker", "worker_ignored"}

Delegations(messages) == SelectSeq(messages, LAMBDA m : m.kind = "task")

DelegationsOf(messages, index) ==
    SelectSeq(messages, LAMBDA m : m.kind = "task" /\ m.data.task.subtask_index = index)

(* two subtasks, both agents registered and running *)
TwoByTwo ==
    /\ Len(cur'[1].subtasks) = 2
    /\ cur'[1].all_agents_info = AgentsInfo(Registered)
    /\ coord'.known = <<"a", "b">>

(* C15: end to end, for a task of two subtasks with two running agents: both
   subtasks are delegated; a worker that takes a delegated subtask from its
   inbox publishes to the coordinator's inbox a correlated response (its
   result with the subtask and the user topic of the delegation); the
   coordinator hands every message a worker sent it to
   _handle_agent_response, and the handler step that stores the last of the
   subtasks publishes the combined answer and leaves no pending entry of
   the query. *)
C15_EndToEnd ==
    [][/\ (TaskStep /\ TwoByTwo) =>
              \A index \in {0, 1} : Len(DelegationsOf(sent', index)) = 1
       /\ (op' = "worker" /\ cur'[1].kind = "task") =>
              \E i \in 1..Len(sent') :
                  /\ sent'[i].topic = cur'[1].data.reply_to
                  /\ "task_result" \in DOMAIN sent'[i].data
                  /\ sent'[i].data.original_task = cur'[1].data.task
                  /\ sent'[i].data.user_topic = cur'[1].data.user_topic
       /\ (op' \in {"handle", "dropped"} /\ wire # wire') =>
              /\ op' = "handle"
              /\ "all_completed_synthesizing" \in Kinds(sent') =>
                     /\ Len(SelectSeq(sent', LAMBDA m : m.kind = "synthesis")) = 1
                     /\ \A i \in 1..Len(pending') :
                            Get(pending'[i].v.task.original_query, "")
                                # cur'[1].original_task.original_query]_vars

(* both workers took their subtask and replied, the coordinator took both
   replies from its inbox and dropped them: nothing is in flight, nothing is
   pending, nothing was published *)
C15_RepliesDropped ==
    /\ op = "dropped"
    /\ wire = <<>>
    /\ \A name \in Registered : Len(workers[name].recent) = 1
    /\ pending = <<>>
    /\ sent = <<>>

(* C16: every delegation message published to a worker's inbox, by
   delegate_task and by _collaborate_with_agents, carries the task payload,
   a reply-to topic equal to the delegating agent's inbox, the end-user
   topic, and the original query text. *)
C16_DelegationCarriesRouting ==
    [][\A i \in 1..Len(sent') :
          sent'[i].kind = "task" =>
              /\ sent'[i].topic \in {InboxTopic(name) : name \in Registered}
              /\ "task" \in DOMAIN sent'[i].data
              /\ "reply_to" \in DOMAIN sent'[i].data
              /\ sent'[i].data.reply_to = InboxTopic(AssistantName)
              /\ "user_topic" \in DOMAIN sent'[i].data
              /\ sent'[i].data.user_topic \in AdHocTopics
              /\ \/ "original_query" \in DOMAIN sent'[i].data
                 \/ "original_query" \in DOMAIN sent'[i].data.task]_vars

(* an ad-hoc collaboration delegated its task to both agents *)
C16_AdHocDelegated ==
    /\ op = "collaborate"
    /\ Len(Delegations(sent)) = 2
    /\ \A i \in 1..Len(sent) :
          sent[i].kind = "task" => "reply_to" \notin DOMAIN sent[i].data

(* C17: collaborate_on_task consumes every subtask of the decomposer exactly
   once: for each subtask index exactly one delegation message is published,
   to one agent inbox, carrying that subtask. *)
C17_EachSubtaskDelegatedOnce ==
    [][(TaskStep /\ cur'[1].all_agents_info # <<>>) =>
          \A i \in 1..Len(cur'[1].subtasks) :
              /\ Len(DelegationsOf(sent', i - 1)) = 1
              /\ DelegationsOf(sent', i - 1)[1].data.task.task = cur'[1].subtasks[i].task
              /\ DelegationsOf(sent', i - 1)[1].topic
                     \in {InboxTopic(name) : name \in Registered}]_vars

(* two subtasks were announced as delegated and one delegation was
   published: the other was assigned to a registered agent that does not
   run *)
C17_AnnouncedNotPublished ==
    /\ op = "task"
    /\ Len(cur[1].subtasks) = 2
    /\ Len(Delegations(sent)) = 1
    /\ \E i \in 1..Len(sent) : sent[i].kind = "all_delegated" /\ sent[i].n = 2
    /\ \E i \in 1..Len(sent) :
          sent[i].kind = "delegating" /\ None \notin Range(sent[i].assignments)

-----------------------------------------------------------------------------
(* Observations of a step of the worker b in natural conversation *)

ConverseStep == op' \in {"converse", "converse_ignored"}

Triple(d) == <<d.from_agent, d.message, d.context>>

(* the same (sender, text, context) was processed before, and how long ago *)
ProcessedBefore(d) == \E e \in workers["b"].history : e.k = Triple(d)
SinceProcessed(d) ==
    now - (CHOOSE e \in workers["b"].history : e.k = Triple(d)).v

IsStale(d) == d.timestamp > 0 /\ d.timestamp < workers["b"].startup_time

Remembered(d) ==
    DictHas(workers["b"].recent, MessageHash(d.from_agent, d.message, d.context))

(* no message of the same hash was processed within the window *)
HashQuiet(d) ==
    \A e \in workers["b"].history :
        MessageHash(e.k[1], e.k[2], e.k[3])
            = MessageHash(d.from_agent, d.message, d.context)
        => now - e.v >= DEDUP_WINDOW

Suppressed == sent' = <<>> /\ workers' = workers

Answered(d) ==
    /\ sent' # <<>>
    /\ sent'[1].topic = InboxTopic(d.from_agent)
    /\ \E e \in workers'["b"].history : e.k = Triple(d) /\ e.v = now

(* C18 as stated: of two messages with identical sender, text and context,
   the second is not processed (no response is sent) when it arrives less
   than 5 time units after the first was processed, and it is processed when
   it arrives 5 or more time units after. *)
C18_DuplicateWindow ==
    [][ConverseStep /\ ProcessedBefore(cur'[1])
       => IF SinceProcessed(cur'[1]) < DEDUP_WINDOW
          THEN Suppressed
          ELSE Answered(cur'[1])]_vars

(* C18, amended: a message whose (sender, text, context) was processed
   before and whose timestamp is not stale is not processed when it arrives
   less than 5 time units after that and the cache still holds its hash, and
   it is processed when no message of the same hash was processed less than
   5 time units before it; the cache holds the hash of every message
   processed so far as long as these are at most 50. *)
C18_WindowWhileRemembered ==
    /\ [][ConverseStep /\ ProcessedBefore(cur'[1]) /\ ~IsStale(cur'[1])
          => /\ SinceProcessed(cur'[1]) < DEDUP_WINDOW /\ Remembered(cur'[1])
                    => Suppressed
             /\ SinceProcessed(cur'[1]) >= DEDUP_WINDOW /\ HashQuiet(cur'[1])
                    => Answered(cur'[1])]_vars
    /\ [](Cardinality(workers["b"].history) <= RECENT_LIMIT
            => \A e \in workers["b"].history :
                   DictHas(workers["b"].recent, MessageHash(e.k[1], e.k[2], e.k[3])))

(* a repetition that arrived one time unit short of the window was not
   processed *)
C18_RepetitionSuppressed ==
    /\ op = "converse_ignored"
    /\ cur # None
    /\ cur[1].timestamp = now
    /\ \E e \in workers["b"].history :
           e.k = Triple(cur[1]) /\ now - e.v = DEDUP_WINDOW - 1
    /\ sent = <<>>

-----------------------------------------------------------------------------
(* Observations of extract_mentions: the @name tokens of a text, read from
   the text alone.  A token is an @ that does not follow a word character,
   with the maximal run of word characters after it. *)

TokenAt(t, i) == t[i] = "@" /\ NotAfterWord(t, i) /\ WordRun(t, i + 1) >= 1
TokenName(t, i) == LowerText(SubSeq(t, i + 1, i + WordRun(t, i + 1)))

(* the token names a registered agent and is not followed by a dot *)
ValidTokenAt(t, i) ==
    /\ TokenAt(t, i)
    /\ NotBeforeDot(t, i + 1 + WordRun(t, i + 1))
    /\ TokenName(t, i) \in RegisteredAgents

(* the names of the valid tokens from position i on, each once, in order of
   first occurrence *)
RECURSIVE Referenced(_, _, _)
Referenced(t, i, names) ==
    IF i > Len(t) THEN names
    ELSE Referenced(t, i + 1,
                    IF ValidTokenAt(t, i) /\ TokenName(t, i) \notin Range(names)
                    THEN Append(names, TokenName(t, i))
                    ELSE names)

(* the text from position i on without its valid tokens *)
RECURSIVE WithoutValid(_, _)
WithoutValid(t, i) ==
    IF i > Len(t) THEN <<>>
    ELSE IF ValidTokenAt(t, i)
         THEN WithoutValid(t, i + 1 + WordRun(t, i + 1))
         ELSE <<t[i]>> \o WithoutValid(t, i + 1)

Routed == mentions # None

(* C19: extract_mentions returns exactly the lowercase names of registered
   agents that occur as @name tokens in the text, each once, in order of
   first occurrence; case variants of the same name collapse to a single
   entry. *)
C19_ExactlyTheReferenced ==
    Routed => mentions[1].agent_names = Referenced(message, 1, <<>>)

(* a name is returned that is only the beginning of a token followed by a
   dot *)
C19_PrefixReturned ==
    /\ Routed
    /\ message = <<"@", "a", "b", ".">>
    /\ mentions[1].agent_names = <<<<"a">>>>
    /\ Referenced(message, 1, <<>>) = <<>>

(* C20: extract_mentions accepts an @token only if the whole token,
   lowercased, is a registered agent name, the @ is not preceded by a word
   character, and the token is not followed by a dot; every other @token is
   neither returned nor altered in the output text; if no token is
   accepted, the output text is identical to the input. *)
C20_WholeTokensOnly ==
    Routed =>
        /\ Range(mentions[1].agent_names) \subseteq Range(Referenced(message, 1, <<>>))
        /\ mentions[1].agent_names # <<>>
               => mentions[1].cleaned_message = StripText(WithoutValid(message, 1))
        /\ mentions[1].agent_names = <<>>
               => mentions[1].cleaned_message = message

(* only valid tokens were accepted, and a token that was not accepted lost
   its beginning *)
C20_OtherTokenAltered ==
    /\ Routed
    /\ message = <<"@", "a", " ", "@", "a", "b">>
    /\ mentions[1].agent_names = Referenced(message, 1, <<>>)
    /\ mentions[1].cleaned_message = <<"b">>
    /\ StripText(WithoutValid(message, 1)) = <<"@", "a", "b">>

(* the text from position i on without its valid tokens and, for a token
   that stands at the start or after a space, without the spaces that
   follow it: the text as it would read had the mentions never been
   written *)
RECURSIVE SpaceRun(_, _)
SpaceRun(t, i) == IF i <= Len(t) /\ t[i] = " " THEN 1 + SpaceRun(t, i + 1) ELSE 0

RECURSIVE NeverWritten(_, _)
NeverWritten(t, i) ==
    IF i > Len(t) THEN <<>>
    ELSE IF ValidTokenAt(t, i)
         THEN NeverWritten(t, i + 1 + WordRun(t, i + 1)
                                  + (IF i = 1 \/ t[i - 1] = " "
                                     THEN SpaceRun(t, i + 1 + WordRun(t, i + 1))
                                     ELSE 0))
         ELSE <<t[i]>> \o NeverWritten(t, i + 1)

(* the names accepted are those of the valid tokens, and exactly the valid
   tokens were removed from the text *)
AcceptedAsWritten ==
    /\ Routed
    /\ mentions[1].agent_names # <<>>
    /\ mentions[1].agent_names = Referenced(message, 1, <<>>)
    /\ mentions[1].cleaned_message = StripText(WithoutValid(message, 1))

(* C21: the text returned by extract_mentions is the input with every
   accepted mention removed and no residue, the remaining words separated
   exactly as if the mentions had never been written. *)
C21_NoResidue ==
    AcceptedAsWritten
        => mentions[1].cleaned_message = StripText(NeverWritten(message, 1))

(* a mention between two words leaves both of its spaces behind *)
C21_DoubleSpaceLeft ==
    /\ Routed
    /\ message = <<"a", " ", "@", "b", " ", "a">>
    /\ mentions[1].agent_names = <<<<"b">>>>
    /\ mentions[1].cleaned_message = <<"a", " ", " ", "a">>

-----------------------------------------------------------------------------
(* Observations of decompose_task *)

Decomposed == decomposed # None

WordCount == Len(request[1].task)
Keyword == HasComplexKeywords(request[1].task)

(* a fallback path: anything but a completion that parses as JSON *)
FallbackPath == request[1].outcome.kind # "json"

Dependencies(result) ==
    [i \in 1..Len(result.items) |->
        IF "dependencies" \in DOMAIN result.items[i]
        THEN Some(result.items[i].dependencies) ELSE None]

(* C22: whenever decompose_task takes a fallback path, its result is
   determined by the word count w of the task and the presence of a complex
   keyword: w < 8 and no keyword gives exactly 1 subtask with empty
   dependencies; 8 <= w <= 14 or any keyword gives exactly 2 subtasks with
   dependencies [] and [0]; w >= 15 with no keyword gives exactly 3 subtasks
   with dependencies [], [0], [1]. *)
C22_FallbackBuckets ==
    Decomposed /\ FallbackPath =>
        /\ decomposed[1].type = "list"
        /\ Dependencies(decomposed[1]) =
               IF WordCount < 8 /\ ~Keyword THEN <<Some(<<>>)>>
               ELSE IF WordCount <= 14 \/ Keyword THEN <<Some(<<>>), Some(<<0>>)>>
               ELSE <<Some(<<>>), Some(<<0>>), Some(<<1>>)>>

(* a null completion for a task of 8 words without a keyword gave a single
   subtask *)
C22_EightWordsOneSubtask ==
    /\ Decomposed
    /\ request[1].outcome.kind = "null"
    /\ WordCount = 8
    /\ ~Keyword
    /\ Len(decomposed[1].items) = 1

SubtaskFields == {"task", "agent_type", "priority", "dependencies"}

(* C23: for every outcome of the completion service, decompose_task returns
   an ordered list of at least 1 and at most 5 subtask records, each with
   task, agent_type, priority and dependencies; it never returns an empty
   list or a non-list. *)
C23_OneToFiveRecords ==
    Decomposed =>
        /\ decomposed[1].type = "list"
        /\ Len(decomposed[1].items) \in 1..5
        /\ \A i \in 1..Len(decomposed[1].items) :
               SubtaskFields \subseteq DOMAIN decomposed[1].items[i]

(* the completion parsed to an empty JSON array, which was returned *)
C23_EmptyListReturned ==
    /\ Decomposed
    /\ request[1].outcome.kind = "json"
    /\ decomposed[1] = ListOf(<<>>)

-----------------------------------------------------------------------------
(* Observations of the supervisor *)

StatusOf(s, agent_name) ==
    IF DictHas(s.agents, agent_name) THEN DictGet(s.agents, agent_name).status
    ELSE "absent"

(* C24: start_agent_by_name for a name already present in the process table
   returns an error, launches no process, and leaves the process table
   unchanged. *)
C24_StartRefusedWhenTracked ==
    [][op' = "start" /\ DictHas(sup.running_processes, cur'[1].name)
       => /\ ~cur'[1].ok
          /\ sup'.launched = sup.launched
          /\ sup'.alive = sup.alive
          /\ sup'.running_processes = sup.running_processes]_vars

(* a start was refused for a name that is in the process table *)
C24_Refused ==
    /\ op = "start"
    /\ ~cur[1].ok
    /\ DictHas(sup.running_processes, cur[1].name)

(* C25: after stop_agent_process returns ok for an agent, the agent is
   absent from the process table and its persisted record has status
   'stopped' and a null pid.  For a tracked handle SIGTERM comes first and
   SIGKILL only when the process did not exit on it; for an untracked
   agent persisted as running with a pid, signalling a dead pid counts as
   success. *)
C25_StoppedAfterOk ==
    [][op' = "stop"
       => /\ cur'[1].ok
             => /\ ~DictHas(sup'.running_processes, cur'[1].name)
                /\ DictHas(sup'.agents, cur'[1].name)
                /\ DictGet(sup'.agents, cur'[1].name) = AgentRecord("stopped", None)
          /\ Tracked(sup, cur'[1].name) # None
             => /\ cur'[1].signals \in {<<>>, <<"SIGTERM">>, <<"SIGTERM", "SIGKILL">>}
                /\ Len(cur'[1].signals) = 2 => cur'[1].exits # "term"
                /\ cur'[1].signals = <<>> => Tracked(sup, cur'[1].name)[1] \notin sup.alive
          /\ /\ Tracked(sup, cur'[1].name) = None
              /\ StatusOf(sup, cur'[1].name) = "running"
              /\ DictGet(sup.agents, cur'[1].name).pid # None
              /\ DictGet(sup.agents, cur'[1].name).pid[1] \notin sup.alive \cup sup.foreign
             => cur'[1].ok]_vars

(* a stop that had to force-kill returned ok *)
C25_ForceKilled ==
    /\ op = "stop"
    /\ cur[1].ok
    /\ cur[1].signals = <<"SIGTERM", "SIGKILL">>
    /\ StatusOf(sup, cur[1].name) = "stopped"

(* C26 as stated: after cleanup_stale_agents, every agent persisted as
   running has a pid that belongs to a live process; agents persisted as
   running with a dead pid or with no pid have been set to stopped, and
   records that were not running, or whose pid is live, are unchanged. *)
C26_CleanupReconciles ==
    [][op' = "cleanup"
       => /\ Len(sup'.agents) = Len(sup.agents)
          /\ \A i \in 1..Len(sup.agents) :
                LET was == sup.agents[i].v
                    is == sup'.agents[i].v
                IN  /\ is.status = "running"
                       => is.pid # None /\ is.pid[1] \in sup.alive \cup sup.foreign
                    /\ was.status = "running"
                       /\ (was.pid = None \/ was.pid[1] \notin sup.alive \cup sup.foreign)
                       => is.status = "stopped"
                    /\ was.status # "running"
                       \/ (was.pid # None /\ was.pid[1] \in sup.alive \cup sup.foreign)
                       => is = was]_vars

(* C26, amended: live means live and open to the supervisor's signal; a
   running record whose pid belongs to a live process the supervisor may
   not signal is set to stopped like a dead one. *)
C26_CleanupBySignal ==
    [][op' = "cleanup"
       => /\ Len(sup'.agents) = Len(sup.agents)
          /\ \A i \in 1..Len(sup.agents) :
                LET was == sup.agents[i].v
                    is == sup'.agents[i].v
                IN  /\ sup'.agents[i].k = sup.agents[i].k
                    /\ is.status = "running"
                       => is.pid # None /\ is.pid[1] \in sup.alive
                    /\ was.status = "running"
                       /\ (was.pid = None \/ was.pid[1] \notin sup.alive)
                       => is = AgentRecord("stopped", None)
                    /\ was.status # "running"
                       \/ (was.pid # None /\ was.pid[1] \in sup.alive)
                       => is = was]_vars

(* the cleanup stopped a record without pid and kept one whose process
   answers the signal *)
C26_StaleStoppedLiveKept ==
    /\ op = "cleanup"
    /\ Len(cur[1].before) = 2
    /\ cur[1].before[1].v = AgentRecord("running", None)
    /\ sup.agents[1].v = AgentRecord("stopped", None)
    /\ sup.agents[2].v = AgentRecord("running", Some(StalePid("b")))
    /\ StalePid("b") \in sup.alive

(* C27: an agent whose process is detected dead without an explicit stop is
   given status 'failed', start moves 'stopped' to 'running', and only an
   explicit stop moves 'running' to 'stopped'. *)
C27_StatusMachine ==
    [][\A n \in Registered :
          /\ (StatusOf(sup, n) = "running" /\ StatusOf(sup', n) = "stopped")
                => op' = "stop"
          /\ (StatusOf(sup, n) = "stopped" /\ StatusOf(sup', n) = "running")
                => op' \in {"start", "register"}
          /\ (/\ op' = "cleanup"
              /\ StatusOf(sup, n) = "running"
              /\ DictGet(sup.agents, n).pid # None
              /\ DictGet(sup.agents, n).pid[1] \notin sup.alive \cup sup.foreign)
                => StatusOf(sup', n) = "failed"]_vars

(* the cleanup found the process of a running agent dead and left the
   record stopped *)
C27_DeadMarkedStopped ==
    /\ op = "cleanup"
    /\ cur[1].before # <<>>
    /\ cur[1].before[1].v = AgentRecord("running", Some(StalePid("a")))
    /\ StalePid("a") \notin sup.alive \cup sup.foreign
    /\ sup.agents[1].v.status = "stopped"

(* the live children launched for a name *)
Children(agent_name) ==
    {pid \in DOMAIN sup.launched :
        sup.launched[pid] = agent_name /\ pid \in sup.alive}

(* C28: under every interleaving of concurrent start, stop and delete
   requests for the same agent name, at most one child process per name is
   launched and tracked at a time, and no launched process is left running
   without an entry in the process table. *)
C28_OneChildTracked ==
    \A n \in Registered :
        /\ Cardinality(Children(n)) <= 1
        /\ \A pid \in Children(n) : Tracked(sup, n) = Some(pid)

(* two start requests have both launched a child for the same name and no
   request is in progress: the first child runs untracked *)
C28_TwoChildren ==
    /\ threads = <<>>
    /\ op = "start"
    /\ \E n \in Registered :
          /\ Cardinality(Children(n)) = 2
          /\ Tracked(sup, n) # None
          /\ Children(n) \ {Tracked(sup, n)[1]} # {}

(* the distinct subtask indices among the entries of query q *)
IndicesOf(p, q) ==
    {Contributing(p, q)[i].v.task.subtask_index[1] : i \in 1..Len(Contributing(p, q))}

(* C29: index-based completion is isolated per query: synthesis for a
   decomposed query is never triggered while fewer than total_subtasks
   distinct subtask indices of that same query have reported, even when
   responses of other tasks or queries, ad-hoc ones with index 0 included,
   are in the pending-response index. *)
C29_CompletionPerQuery ==
    [][HandleStep =>
          \A c \in Range(calls') :
              c.who = "index" =>
                  \A i \in 1..Len(Contributing(StoredByHandle, c.about)) :
                      Cardinality(IndicesOf(StoredByHandle, c.about))
                          >= Contributing(StoredByHandle, c.about)[i].v.task.total_subtasks[1]]_vars

(* a query of two subtasks was synthesized from the one response it had,
   its index counted together with the index 0 of the ad-hoc answer, which
   is still held *)
C29_SynthesizedWithAdHocIndex ==
    /\ op = "handle"
    /\ cur[1].original_task.original_query # None
    /\ cur[1].original_task.subtask_index = Some(1)
    /\ cur[1].original_task.total_subtasks = Some(2)
    /\ \E c \in Range(calls) : c.who = "index" /\ Len(c.inputs) = 1
    /\ Len(pending) = 1
    /\ pending[1].v.task.original_query = None
    /\ pending[1].v.task.subtask_index = Some(0)

(* the assistant has sent a natural conversation for the user topic u to a
   running worker; a message is published on u *)
SaidFor(u) ==
    /\ op = "say"
    /\ sent # <<>>
    /\ sent[1].data.original_user_topic = Some(u)

PublishedOn(u) == \E i \in 1..Len(sent) : sent[i].topic = u

(* C30: every natural-conversation message that the assistant sends to a
   running worker together with an original user topic eventually results
   in the worker's response being published to that user topic, by the
   worker itself or forwarded by the assistant. *)
C30_ResponseReachesUser ==
    /\ SaidFor("u") ~> PublishedOn("u")
    /\ SaidFor("v") ~> PublishedOn("v")

(* the assistant has taken the worker's response, which names the user
   topic, from its inbox and published nothing *)
C30_ResponseDropped ==
    /\ op = "dropped"
    /\ cur[1].collaboration_type = "natural_conversation_response"
    /\ cur[1].original_user_topic = Some("u")
    /\ cur[1].reply_to = Some(InboxTopic(AssistantName))
    /\ sent = <<>>

(* the live processes of an agent: the children launched for it and the
   process of its running record *)
ProcessesOf(agent_name) ==
    Children(agent_name)
        \cup {pid \in sup.alive :
                 /\ StatusOf(sup, agent_name) = "running"
                 /\ DictGet(sup.agents, agent_name).pid = Some(pid)}

(* C31: at most one live OS process exists per agent name at any time,
   including across a supervisor restart: when the startup reconciliation
   has found an agent persisted as running with a live pid, a later start
   for that name does not launch a second process. *)
C31_OneProcessPerName ==
    \A n \in Registered : Cardinality(ProcessesOf(n)) <= 1

(* a start has launched a child for an agent whose record the
   reconciliation kept as running with a live pid of the previous run *)
C31_SecondProcess ==
    /\ op = "start"
    /\ cur[1].ok
    /\ sup.up
    /\ DictHas(sup.agents, cur[1].name)
    /\ DictGet(sup.agents, cur[1].name) = AgentRecord("running", Some(StalePid(cur[1].name)))
    /\ StalePid(cur[1].name) \in sup.alive
    /\ Children(cur[1].name) # {}

(* the response being handled answers a delegation made before the
   session now active under its key was started *)
FromEarlier ==
    /\ HandleStep
    /\ Matches
    /\ cur'[1].asked < HandledSession.start_time

(* C32: responses are attributed only to the collaboration whose delegation
   they answer: a response produced for an earlier ad-hoc collaboration is
   never counted toward a later collaboration started with the same task
   text and reply-to topic; the later session is as it was. *)
C32_CountedOnlyWhereAsked ==
    [][FromEarlier /\ ~Overdue(HandledSession)
       => /\ DictHas(active', HandledKey)
          /\ DictGet(active', HandledKey) = HandledSession]_vars

(* the later session was completed by the answer to a delegation of the
   earlier one, made more than the timeout ago, while its own delegation
   is still unanswered *)
C32_CompletedByEarlierAnswer ==
    /\ op = "handle"
    /\ "collaboration_complete" \in Kinds(sent)
    /\ now - cur[1].asked > COLLAB_TIMEOUT
    /\ \E i \in 1..Len(wire) : wire[i].asked = now /\ wire[i].topic = InboxTopic(cur[1].from_agent)

(* C33: a natural-conversation message is suppressed as a duplicate only if
   a message with the identical (sender, text, context) triple was
   processed less than 5 time units earlier; messages that differ in
   sender, text or context are never suppressed because of one another. *)
C33_SuppressedOnlyByItself ==
    [][op' = "converse_ignored" /\ ~IsStale(cur'[1])
       => /\ ProcessedBefore(cur'[1])
          /\ SinceProcessed(cur'[1]) < DEDUP_WINDOW]_vars

(* a message never processed before was suppressed because of a message
   with a different text *)
C33_SuppressedByAnother ==
    /\ op = "converse_ignored"
    /\ cur[1].timestamp = now
    /\ cur[1].message = <<"B">>
    /\ \A e \in workers["b"].history : e.k # Triple(cur[1])
    /\ \E e \in workers["b"].history :
          /\ e.k = <<cur[1].from_agent, <<"b">>, cur[1].context>>
          /\ now - e.v < DEDUP_WINDOW
    /\ sent = <<>>

(* C34: feedback loops are prevented: starting from one user message, the
   chain of agent-to-agent deliveries caused by the agents' replies
   mentioning one another is finite, whatever the replies say and however
   long they take: from some point on nothing is in flight. *)
C34_ChainEnds == <>[](wire = <<>>)

(* worker a has processed the first text again, its cache full of the
   texts that went round in between *)
C34_RoundAgain ==
    /\ op = "worker"
    /\ cur[1].topic = InboxTopic("a")
    /\ cur[1].text = Said(1)
    /\ Len(workers["a"].recent) = RECENT_LIMIT
    /\ Len(wire) = 1
    /\ wire[1].content = <<"@", "b", " ">> \o Said(2)

(* C35: a stop_agent_process call that returns ok = false has changed
   nothing: the process table, the child processes and the persisted agent
   records are exactly as before the call. *)
C35_FailedStopChangesNothing == [][op' = "stop" /\ ~cur'[1].ok => sup' = sup]_vars

(* a stop that failed for want of a record after it ended the tracked child
   and dropped it from the process table *)
C35_StoppedYetFailed ==
    /\ op = "stop"
    /\ ~cur[1].ok
    /\ cur[1].signals # <<>>
    /\ ~DictHas(sup.agents, cur[1].name)
    /\ ~DictHas(sup.running_processes, cur[1].name)
    /\ Children(cur[1].name) = {}

(* C36: find_agent_for_task never fails and returns a member of the
   currently known agent set whenever that set is non-empty, for any
   sequence of calls interleaved with discoveries that grow or shrink the
   known set. *)
C36_FindNeverFails == [][op' \in {"find", "find_raised"} => ~cur'[1].raised /\ (coord'.known # <<>> => cur'[1].agent_name # None /\ cur'[1].agent_name[1] \in Range(coord'.known))]_vars

(* a call that failed with two agents known, after a discovery that
   returned fewer agents than the index of the next one *)
C36_IndexPastEnd ==
    /\ op = "find_raised"
    /\ Len(coord.known) = 2
    /\ coord.last = 2

(* C37: while the set of known agents is fixed with N >= 1 members,
   successive find_agent_for_task calls return the agents in cyclic order:
   every call returns an agent, and no agent is returned twice within N
   consecutive calls. *)
C37_CyclicOrder == op \in {"find", "find_raised"} /\ coord.known # <<>> => ~cur[1].raised /\ \A i, j \in 1..Len(Streak) : i # j => Streak[i] # Streak[j]

(* two consecutive calls returned the same agent of two known ones, a
   discovery in between having returned the two in the other order *)
C37_SameAgentTwice ==
    /\ op = "find"
    /\ Len(coord.known) = 2
    /\ Len(Streak) = 2
    /\ Streak[1] = Streak[2]

(* C38: a natural-conversation message whose timestamp is positive and
   earlier than the receiving agent's startup time is dropped, publishing no
   response and leaving the dedup cache (and the rest of the worker)
   unchanged; a message with timestamp 0 or absent, or with a timestamp at
   or after startup, is not rejected as stale: it is processed unless it
   repeats a message of the last DEDUP_WINDOW seconds. *)
C38_StaleRejection == [][ConverseStep => IF IsStale(cur'[1]) THEN op' = "converse_ignored" /\ sent' = <<>> /\ workers' = workers ELSE op' = "converse" \/ RecentlySeen(workers["b"].recent, MessageHash(cur'[1].from_agent, cur'[1].message, cur'[1].context), now)]_vars

(* a message from before startup was dropped by a worker whose cache holds
   entries, the text of the message among the processed ones *)
C38_StaleDropped ==
    /\ op = "converse_ignored"
    /\ IsStale(cur[1])
    /\ sent = <<>>
    /\ workers["b"].recent # <<>>
    /\ ProcessedBefore(cur[1])

(* the keys a handled message removed from the cache of worker b *)
Evicted == DictKeys(workers["b"].recent) \ DictKeys(workers'["b"].recent)

HashOf(d) == MessageHash(d.from_agent, d.message, d.context)

(* C39: after each handled natural-conversation message the dedup cache
   holds at most RECENT_LIMIT entries; an entry that is evicted has the
   oldest last-seen timestamp of all, and it is never the entry just
   recorded, which is in the cache with the current time. *)
C39_CacheCapped == [][ConverseStep => Len(workers'["b"].recent) <= RECENT_LIMIT /\ Cardinality(Evicted) <= 1 /\ (op' = "converse" => DictHas(workers'["b"].recent, HashOf(cur'[1])) /\ DictGet(workers'["b"].recent, HashOf(cur'[1])) = now) /\ \A k \in Evicted : \A j \in 1..Len(workers'["b"].recent) : DictGet(workers["b"].recent, k) <= workers'["b"].recent[j].v]_vars

(* a processed message filled the cache past its limit and an entry older
   than one that stays was evicted *)
C39_OldestEvicted ==
    /\ op = "converse"
    /\ Len(workers["b"].recent) = RECENT_LIMIT
    /\ DictHas(workers["b"].recent, HashOf(cur[1]))
    /\ \E e \in workers["b"].history :
           /\ ~DictHas(workers["b"].recent, MessageHash(e.k[1], e.k[2], e.k[3]))
           /\ \E j \in 1..Len(workers["b"].recent) : workers["b"].recent[j].v > e.v

(* the system messages of an enhanced request *)
HistoryParts(enhanced) == {k \in 1..Len(enhanced) : enhanced[k].role = "system"}

(* C40: peer conversation history is stored without bound, but a completion
   request that includes a peer's history contains at most its
   HISTORY_TURNS most recent turns in their original order: both in the
   request _enhance_messages_with_agent_history builds and in the request
   the worker makes from the history the assistant sent it. *)
C40_AtMostFiveTurns == (op = "completion" => Len(calls[1].messages) <= HISTORY_TURNS) /\ (op = "enhance" => \A k \in HistoryParts(cur[1].enhanced) : Len(cur[1].enhanced[k].turns) <= HISTORY_TURNS)

(* a worker's completion request made with more turns than HISTORY_TURNS,
   the whole history the assistant has stored for it *)
C40_WholeHistorySent ==
    /\ op = "completion"
    /\ Len(calls[1].messages) > HISTORY_TURNS
    /\ calls[1].messages = ConversationWith(coord, cur[1].agent_name)

====
